---- MODULE Spec2Model ----
(***************************************************************************)
(* A model of the audio-quality analysis pipeline of audio_analyzer:       *)
(* AudioAnalyzer.convert_to_wav, AudioAnalyzer.analyze_audio,              *)
(* AudioAnalyzer.categorize_pesq (src/audio_analyzer/analyzer.py) and the  *)
(* helpers get_media_info, cleanup_temp_file, create_temp_wav              *)
(* (src/audio_analyzer/utils.py).                                          *)
(*                                                                         *)
(* One invocation of analyze_audio is a sequence of steps; pc is the       *)
(* position of the invocation in the code.  Everything the code obtains    *)
(* from outside (libmagic, ffprobe, pydub, soundfile, the pesq library,    *)
(* numpy's random generator, the operating system) is an input drawn from  *)
(* a small set at the step that reads it.                                  *)
(*                                                                         *)
(* Numbers: PESQ scores are integers in thousandths, rounded values are    *)
(* integers in hundredths, powers are integers in units of 1e-4 (the       *)
(* nominal power of the injected noise, 0.01^2), decibels are in           *)
(* thousandths before rounding and hundredths after.                       *)
(*                                                                         *)
(* Three more components have specifications of their own, during which    *)
(* the one-invocation pipeline is at rest: several invocations of          *)
(* analyze_audio that share the temporary directory and numpy's generator  *)
(* (SpecConcurrent), S3ClientManager with the threads that call get_client *)
(* or upload_file_to_s3 (src/services/s3_service.py; SpecRefresh,          *)
(* SpecGetClient, SpecUpload; the clock is in minutes), and one request to *)
(* an analysis endpoint (src/api/routers.py; SpecApi).  The manager has    *)
(* further specifications for its token operations (SpecToken), for        *)
(* uploads side by side (SpecUploads), for an upload under fair scheduling *)
(* (SpecUploadFair) and for the class method get_instance (SpecInstance).  *)
(***************************************************************************)
EXTENDS Integers, Sequences, FiniteSets, TLC

\* ------------------------------------------------------------------ bounds

\* How many temporary names tempfile can hand out.
MaxTemp == 2
\* The longest stream list ffprobe reports.
MaxStreams == 2
\* How many analyze_audio invocations run side by side.
NumInvocations == 2
\* How many threads use the S3 client manager side by side.
NumThreads == 2
\* How many minutes go by while the S3 client manager is watched.
MaxTick == 3
\* How many token operations one caller makes in a row.
MaxTokenCalls == 3
\* The last second of a minute the clock of generate_file_name tells apart.
MaxSecond == 1
\* How many calls of get_instance the threads make in all.
MaxInstanceCalls == 3

\* ------------------------------------------------------------------- paths

\* A path is [dir, n, suffix]; the suffix is what str.endswith tests.
NoPath == [dir |-> "None", n |-> 0, suffix |-> ""]
\* The caller's file: the CLI passes any path, the API a NamedTemporaryFile
\* without a suffix.
InputPaths == {[dir |-> "in", n |-> 1, suffix |-> ".wav"],
               [dir |-> "in", n |-> 2, suffix |-> ""]}
\* A file of somebody else that is on disk during the invocation.
OtherPath == [dir |-> "in", n |-> 3, suffix |-> ".wav"]
TempPaths == {[dir |-> "tmp", n |-> i, suffix |-> ".wav"] : i \in 1..MaxTemp}

\* -------------------------------------------------------------- MIME types

NoMime == [major |-> "", minor |-> ""]
WavMime == [major |-> "audio", minor |-> "x-wav"]
VideoWebm == [major |-> "video", minor |-> "webm"]
AudioWebm == [major |-> "audio", minor |-> "webm"]
\* What libmagic can report for the caller's file.
Mimes == {WavMime, VideoWebm,
          [major |-> "audio", minor |-> "mpeg"],
          [major |-> "audio", minor |-> "ogg"],
          [major |-> "video", minor |-> "mp4"],
          [major |-> "application", minor |-> "pdf"]}

\* str.startswith('audio/')
startswith_audio(t) == t.major = "audio"

\* ------------------------------------------------------------- exceptions

NoExc == [type |-> "None", detail |-> NoMime]
Exc(type) == [type |-> type, detail |-> NoMime]

VARIABLES
    fs,             \* the paths that exist on disk
    input_file,     \* analyze_audio's argument
    content,        \* what the bytes of the caller's file are (libmagic's answer)
    pc,             \* position of the invocation
    file_type,      \* convert_to_wav: local file_type
    media_info,     \* convert_to_wav: local media_info
    temp_wav_path,  \* convert_to_wav: local temp_wav_path (NoPath: not in locals())
    conv,           \* how convert_to_wav ended: pending, returned a path, raised
    wav_file,       \* analyze_audio: local wav_file (NoPath: None)
    exc,            \* the exception being propagated
    caught,         \* the exception analyze_audio's handler caught
    audio,          \* analyze_audio: [len, channels, power] of the local audio
    sample_rate,    \* analyze_audio: local sample_rate (0: not read yet)
    noise,          \* analyze_audio: [len, power] of the local noise
    pesq_score,     \* analyze_audio: local pesq_score, thousandths
    powers,         \* analyze_audio: [signal, noise, kind] of the SNR stage
    snr,            \* analyze_audio: local snr
    ret,            \* how analyze_audio ended: pending, returned, raised
    category,       \* what a direct call of categorize_pesq returned ("": none)
    calls,          \* the external calls made, in order
    cleanups,       \* the paths handed to cleanup_temp_file, in order
    unlink_failed   \* the paths whose os.unlink raised (the logged warnings)

\* Several invocations of analyze_audio side by side.
VARIABLES
    tmpdir,         \* the temporary directory all invocations share
    np_random,      \* numpy's module-level generator: how often it was drawn from
    inv             \* per invocation: its position and its locals

\* S3ClientManager and its callers (src/services/s3_service.py).
VARIABLES
    now,                 \* the clock, in minutes
    credentials,         \* S3ClientManager.credentials
    credentials_expiry,  \* S3ClientManager.credentials_expiry
    s3_client,           \* S3ClientManager.s3_client
    refresh_lock,        \* S3ClientManager._refresh_lock: its holder, 0 when free
    fetches,             \* the calls of _get_cognito_credentials, in order
    th                   \* per thread: its operation, position and locals

\* The class S3ClientManager (src/services/s3_service.py, lines 13-56).
VARIABLES
    instance,       \* S3ClientManager._instance: 0 for None, or the number of
                    \* the constructor call that made the object
    instance_lock,  \* S3ClientManager._instance_lock: its holder, 0 when free
    constructed     \* the constructor calls, in order: who made them, how
                    \* they ended, and the object's _initialized

\* One request to an analysis endpoint (src/api/routers.py).
VARIABLES
    rq,             \* the endpoint function: its position and its locals
    api_fs,         \* the files the API has on disk
    s3_future,      \* the background upload handed to the executor
    session,        \* the recording session object
    db_rows         \* what recording_session_crud.update has written, in order

pipeline_vars == <<fs, input_file, content, pc, file_type, media_info, temp_wav_path,
                   conv, wav_file, exc, caught, audio, sample_rate, noise, pesq_score,
                   powers, snr, ret, category, calls, cleanups, unlink_failed>>
concurrent_vars == <<tmpdir, np_random, inv>>
s3_vars == <<now, credentials, credentials_expiry, s3_client, refresh_lock, fetches, th>>
api_vars == <<rq, api_fs, s3_future, session, db_rows>>
class_vars == <<instance, instance_lock, constructed>>

\* What a step of one analyze_audio invocation leaves alone, and what the
\* steps of the other components leave alone.
extra == <<concurrent_vars, s3_vars, api_vars, class_vars>>
not_concurrent == <<pipeline_vars, s3_vars, api_vars, class_vars>>
not_s3 == <<pipeline_vars, concurrent_vars, api_vars, class_vars>>
not_api == <<pipeline_vars, concurrent_vars, s3_vars, class_vars>>
not_class == <<pipeline_vars, concurrent_vars, api_vars>>

vars == <<pipeline_vars, extra>>

\* ------------------------------------------------- the classifier (purely)

\* categorize_pesq with each boundary put into the lower bucket.
categorize_pesq_upper_exclusive(s) ==
    IF s <= 1000 THEN "Poor Quality"
    ELSE IF s <= 2000 THEN "Fair Quality"
    ELSE IF s <= 3000 THEN "Good Quality"
    ELSE IF s <= 4000 THEN "Excellent Quality"
    ELSE "Outstanding Quality"

\* AudioAnalyzer.categorize_pesq; the score is in thousandths.
categorize_pesq(s) ==
    IF s < 1000 THEN "Poor Quality"
    ELSE IF 1000 <= s /\ s < 2000 THEN "Fair Quality"
    ELSE IF 2000 <= s /\ s < 3000 THEN "Good Quality"
    ELSE IF 3000 <= s /\ s < 4000 THEN "Excellent Quality"
    ELSE "Outstanding Quality"

\* ---------------------------------------------------------------- rounding

\* round(a / b) for b > 0 as Python's round does it on a float: to the
\* nearest integer, an exact tie to the even one.
RoundDiv(a, b) ==
    LET q == a \div b
        r == a % b
    IN  IF 2 * r < b THEN q
        ELSE IF 2 * r > b THEN q + 1
        ELSE IF q % 2 = 0 THEN q ELSE q + 1

\* round(x, 2): thousandths to hundredths.
Round2(m) == RoundDiv(m, 10)

\* --------------------------------------------------------------- utilities

\* What running ffprobe can come to: the binary is missing (subprocess.run
\* raises), it exits non-zero, its output does not parse, or it prints JSON
\* with or without a 'streams' list.
CodecTypes == {"audio", "video"}
StreamLists == UNION {[1..n -> CodecTypes] : n \in 0..MaxStreams}
ProbeRuns ==
    {[run |-> r, has_streams |-> FALSE, streams |-> <<>>] :
        r \in {"missing", "nonzero", "badjson", "ok"}}
    \cup {[run |-> "ok", has_streams |-> TRUE, streams |-> s] : s \in StreamLists}

NoInfo == [none |-> TRUE, has_streams |-> FALSE, streams |-> <<>>]

\* get_media_info taking a failed run for a container without streams.
get_media_info_empty_on_failure(run) ==
    IF run.run = "ok"
    THEN [none |-> FALSE, has_streams |-> run.has_streams, streams |-> run.streams]
    ELSE [none |-> FALSE, has_streams |-> TRUE, streams |-> <<>>]

\* utils.get_media_info: the parsed JSON, or None on any failure.
get_media_info(run) ==
    IF run.run = "ok"
    THEN [none |-> FALSE, has_streams |-> run.has_streams, streams |-> run.streams]
    ELSE NoInfo

\* cleanup_temp_file testing for the wrong suffix: it never unlinks a '.wav'.
cleanup_temp_file_wrong_suffix(file_path, disk, unlink_ok) ==
    IF file_path \in disk /\ file_path.suffix = ".WAV"
    THEN IF unlink_ok THEN disk \ {file_path} ELSE disk
    ELSE disk

\* utils.cleanup_temp_file: the disk afterwards; unlink_ok is whether os.unlink
\* succeeds when it is called.
cleanup_temp_file(file_path, disk, unlink_ok) ==
    IF file_path \in disk /\ file_path.suffix = ".wav"
    THEN IF unlink_ok THEN disk \ {file_path} ELSE disk
    ELSE disk

\* utils.cleanup_temp_file: whether os.unlink is called and raises (the
\* exception is logged as a warning and goes no further).
cleanup_warns(file_path, disk, unlink_ok) ==
    file_path \in disk /\ file_path.suffix = ".wav" /\ ~unlink_ok

\* create_temp_wav taking a name whether or not a file of that name exists.
create_temp_wav_any_name(disk) == TempPaths

\* utils.create_temp_wav: the names tempfile.NamedTemporaryFile(suffix='.wav')
\* can create, none of which exists yet.
create_temp_wav(disk) == TempPaths \ disk

\* convert_to_wav: format_map, and the fallback for a type it does not list.
format_map ==
    (AudioWebm :> "webm") @@ (VideoWebm :> "webm")
    @@ ([major |-> "audio", minor |-> "mpeg"] :> "mp3")
    @@ ([major |-> "audio", minor |-> "ogg"] :> "ogg")
    @@ ([major |-> "audio", minor |-> "x-m4a"] :> "m4a")
    @@ ([major |-> "audio", minor |-> "aac"] :> "aac")
    @@ ([major |-> "audio", minor |-> "flac"] :> "flac")
    @@ ([major |-> "video", minor |-> "mp4"] :> "mp4")
    @@ ([major |-> "video", minor |-> "x-m4v"] :> "m4v")

detected_format(t) == IF t \in DOMAIN format_map THEN format_map[t] ELSE t.minor

\* The WAV test with the unprefixed MIME name, which libmagic does not report.
is_wav_unprefixed(t) == t = [major |-> "audio", minor |-> "wav"]

\* convert_to_wav, line 60: the file is already a WAV file.
is_wav(t) == t = WavMime

\* convert_to_wav, lines 66-72: the type after the stream inspection.
has_video(streams) == \E i \in DOMAIN streams : streams[i] = "video"

\* The stream inspection never changing the type.
reclassify_never(t, mi) == t

reclassify(t, mi) ==
    IF ~mi.none /\ mi.has_streams /\ ~has_video(mi.streams) THEN AudioWebm ELSE t

\* The type check letting every video container through.
accepted_any_video(t) == startswith_audio(t) \/ t.major = "video"

\* convert_to_wav, line 75: the types that go on to the transcoder.
accepted(t) == startswith_audio(t) \/ t = VideoWebm

\* ------------------------------------------------------------ the SNR stage

\* Mean powers, in units of 1e-4; 1 is the nominal power of the noise.
PowerValues == {0, 1, 2, 100}
\* 10000 * log10(p) for the positive powers.
log10_e4 == (1 :> 0) @@ (2 :> 3010) @@ (100 :> 20000)

\* What numpy.mean hands back: a numpy scalar, or a Python float when the
\* tests replace numpy.mean by a stub.
ScalarKinds == {"numpy", "python"}

Fin(v) == [k |-> "fin", v |-> v]
Inf == [k |-> "inf", v |-> 0]
NegInf == [k |-> "-inf", v |-> 0]
NaN == [k |-> "nan", v |-> 0]
ZeroDiv == [k |-> "ZeroDivisionError", v |-> 0]
NoSnr == [k |-> "unset", v |-> 0]

\* analyze_audio, line 163: 10 * np.log10(signal_power / noise_power), in
\* thousandths of a dB.  A Python float divided by zero raises; a numpy scalar
\* divided by zero is inf or nan, and log10(0) is -inf.
snr_of(signal_power, noise_power, kind) ==
    IF noise_power = 0
    THEN IF kind = "python" THEN ZeroDiv
         ELSE IF signal_power = 0 THEN NaN ELSE Inf
    ELSE IF signal_power = 0 THEN NegInf
    ELSE Fin(log10_e4[signal_power] - log10_e4[noise_power])

\* round(snr, 2): inf, -inf and nan round to themselves.
round_snr(x) == IF x.k = "fin" THEN Fin(Round2(x.v)) ELSE x

\* ------------------------------------------------------------ the inputs

\* What soundfile.read can decode: frames, channels, sample rate.
Lens == {441, 1000}
Channels == {1, 2}
Rates == {8000, 16000, 32000, 44100}
\* The files that are tried: 441 frames at 16 and at 32 kHz, 1000 frames at 8
\* and at 44.1 kHz.
Decodings == {d \in [len : Lens, rate : Rates] :
                (d.len = 441) <=> (d.rate \in {16000, 32000})}
\* The documented range of a PESQ score, in thousandths, and how far outside
\* of it the classifier is tried.
MinScore == -500
MaxScore == 4500
ScoreMargin == 200
ClassifyScores == (MinScore - ScoreMargin)..(MaxScore + ScoreMargin)
\* Below every score: pesq has not returned.
NoScore == MinScore - 10000
\* What the pesq library returns in the pipeline, in thousandths.
Scores == {-500, 500, 996, 1000, 1996, 2000, 3000, 3997, 4000, 4640}

TargetRate == 16000

NoAudio == [len |-> 0, channels |-> 0, power |-> 0]
NoNoise == [len |-> 0, power |-> 0]
NoPowers == [signal |-> 0, noise |-> 0, kind |-> "unset"]

\* How convert_to_wav stands: pending, returned a path, or raised.
ConvPending == [kind |-> "pending", path |-> NoPath]
ConvRaised == [kind |-> "raised", path |-> NoPath]
ConvReturned(p) == [kind |-> "returned", path |-> p]
\* How analyze_audio stands: pending, or returned None or a dict.
None == [none |-> TRUE]
RetPending == [kind |-> "pending", value |-> None]
Returned(v) == [kind |-> "returned", value |-> v]
Call(fn, arg) == [fn |-> fn, arg |-> arg]

\* ------------------------------------- several invocations: what they share

Invocations == 1..NumInvocations

\* The generator a noise vector was drawn from and the state it was in.
NoDraw == [generator |-> "", state |-> 0]
\* The generator behind np.random.normal: the one RandomState the numpy
\* module holds for the whole process.
ModuleGenerator == "np.random"

IdleInv == [pc |-> "idle", input_file |-> NoPath, temp_wav_path |-> NoPath,
            wav_file |-> NoPath, noise |-> NoDraw, ret |-> RetPending,
            cleanups |-> <<>>]

ConcurrentIdle ==
    /\ tmpdir = {}
    /\ np_random = 0
    /\ inv = [i \in Invocations |-> IdleInv]

\* ------------------------------------------------------- S3ClientManager

Threads == 1..NumThreads

\* s3_service.py, line 83: credentials are renewed 5 minutes before they end.
RefreshMargin == 5
\* s3_service.py, line 102: new credentials are taken to last one hour.
CredentialLifetime == 60
\* s3_service.py, line 178, and routers.py, line 86: max_retries.
DefaultMaxRetries == 1
BackgroundMaxRetries == 2

NoExpiry == [none |-> TRUE, at |-> 0]
At(n) == [none |-> FALSE, at |-> n]
\* Credentials are told apart by the fetch that brought them (0: the fetch of
\* the constructor), an S3 client by the credentials it was built from.
NoCredentials == [none |-> TRUE, serial |-> 0]
Credentials(k) == [none |-> FALSE, serial |-> k]
NoClient == [none |-> TRUE, built_from |-> 0]
Client(k) == [none |-> FALSE, built_from |-> k]

\* _should_refresh_credentials with the margin left out.
should_refresh_credentials_no_margin(creds, expiry, t) ==
    creds.none \/ expiry.none \/ t >= expiry.at

\* S3ClientManager._should_refresh_credentials, lines 80-84, on the values it
\* reads: self.credentials, the local expiry and the clock.
should_refresh_credentials(creds, expiry, t) ==
    creds.none \/ expiry.none \/ t + RefreshMargin >= expiry.at

\* The check under the lock always asking for a refresh.
recheck_under_lock_always(creds, expiry, t) == TRUE

\* _refresh_credentials, line 95: the check again, under the lock.
recheck_under_lock(creds, expiry, t) == should_refresh_credentials(creds, expiry, t)

\* What the last evaluation of _should_refresh_credentials read.
NoCheck == [made |-> FALSE, locked |-> FALSE, credentials |-> NoCredentials,
            expiry |-> NoExpiry, now |-> 0]
\* The manager's attributes when a thread's call began.
Attributes(c, e, cl) == [credentials |-> c, credentials_expiry |-> e, s3_client |-> cl]

IdleThread == [op |-> "idle", pc |-> "done", cont |-> "", expiry |-> NoExpiry,
               check |-> NoCheck,
               before |-> Attributes(NoCredentials, NoExpiry, NoClient),
               new_credentials |-> NoCredentials, fetched |-> 0,
               s3_client |-> NoClient, retry_count |-> 0, max_retries |-> 0,
               puts |-> <<>>, res |-> "pending", history |-> <<>>,
               file_name |-> [none |-> TRUE, minute |-> 0, second |-> 0],
               instance |-> 0]

\* No object key: generate_file_name has not been called.
NoName == [none |-> TRUE, minute |-> 0, second |-> 0]

\* generate_file_name, lines 175-176: "recording_" and the local time to the
\* second, "%Y%m%d_%H%M%S", and ".wav"; the name is told by the time in it.
generate_file_name(minute, second) == [none |-> FALSE, minute |-> minute, second |-> second]

\* The values of max_retries: the default, that of the background upload,
\* none, and a negative number.
MaxRetriesValues == {0 - 1, 0, DefaultMaxRetries, BackgroundMaxRetries}

\* get_token_status with the boundary moved: expired only after the expiry.
get_token_status_after_expiry(expiry, t) ==
    IF expiry.none
    THEN [status |-> "expired", expires_in_seconds |-> 0, expiry_time |-> NoExpiry]
    ELSE IF t > expiry.at
         THEN [status |-> "expired", expires_in_seconds |-> 0, expiry_time |-> expiry]
         ELSE [status |-> "active", expires_in_seconds |-> (expiry.at - t) * 60,
               expiry_time |-> expiry]

\* S3ClientManager.get_token_status, lines 125-145, on the expiry and the
\* clock it reads; the clock counts minutes, expires_in_seconds seconds.
get_token_status(expiry, t) ==
    IF expiry.none
    THEN [status |-> "expired", expires_in_seconds |-> 0, expiry_time |-> NoExpiry]
    ELSE IF t >= expiry.at
         THEN [status |-> "expired", expires_in_seconds |-> 0, expiry_time |-> expiry]
         ELSE [status |-> "active", expires_in_seconds |-> (expiry.at - t) * 60,
               expiry_time |-> expiry]

\* No status: the operation has not returned one.
NoStatus == [status |-> "", expires_in_seconds |-> 0, expiry_time |-> NoExpiry]

\* The operations on the token, and the entry an operation gets in its
\* caller's history when it is called.
TokenOps == {"force_token_expiration", "force_refresh_token", "get_token_status"}
TokenCall(op, c, e, cl, n) ==
    [op |-> op, returned |-> FALSE, status |-> NoStatus,
     before |-> Attributes(c, e, cl), fetches_before |-> n, fetches_after |-> n]

\* S3ClientManager, lines 14-17: no instance, the lock free.
NoManager ==
    /\ instance = 0
    /\ instance_lock = 0
    /\ constructed = <<>>

\* A constructor call: who made it, how it ended ("running" until it has),
\* and the _initialized of the object, set in line 39.
Construction(t, outcome, initialized) ==
    [by |-> t, outcome |-> outcome, initialized |-> initialized]

\* get_instance building an object whenever it holds the lock.
instance_missing_always(inst) == TRUE

\* get_instance, lines 43 and 45: cls._instance is None.
instance_missing(inst) == inst = 0

\* S3ClientManager.is_initialized, line 56.
is_initialized(inst, objects) == inst # 0 /\ objects[inst].initialized

S3Idle ==
    /\ NoManager
    /\ now = 0
    /\ credentials = NoCredentials
    /\ credentials_expiry = NoExpiry
    /\ s3_client = NoClient
    /\ refresh_lock = 0
    /\ fetches = <<>>
    /\ th = [t \in Threads |-> IdleThread]

\* --------------------------------------------------- the analysis endpoints

\* The names NamedTemporaryFile(delete=False) can hand out: no suffix.
ApiPaths == {[dir |-> "api", n |-> i, suffix |-> ""] : i \in 1..MaxTemp}

IdleRq == [endpoint |-> "", pc |-> "idle", temp_file_path |-> NoPath,
           results |-> "pending", raised |-> "", response |-> "pending",
           events |-> <<>>]
NoFuture == [state |-> "none", path |-> NoPath]
NoSession == [found |-> FALSE, analysis_output |-> "", s3_location |-> "",
              analysis_score |-> ""]

ApiIdle ==
    /\ rq = IdleRq
    /\ api_fs = {}
    /\ s3_future = NoFuture
    /\ session = NoSession
    /\ db_rows = <<>>

\* Everything but the one analyze_audio invocation is at rest.
ExtraIdle == ConcurrentIdle /\ S3Idle /\ ApiIdle

\* ------------------------------------------------------------------- Init

\* The caller has named a file, which may or may not exist; another file may
\* be on disk; nothing has run yet.
Init ==
    /\ input_file \in InputPaths
    /\ content \in Mimes
    /\ \E present \in BOOLEAN, other \in BOOLEAN :
          fs = (IF present THEN {input_file} ELSE {})
               \cup (IF other THEN {OtherPath} ELSE {})
    /\ pc = "begin"
    /\ file_type = NoMime
    /\ media_info = NoInfo
    /\ temp_wav_path = NoPath
    /\ conv = ConvPending
    /\ wav_file = NoPath
    /\ exc = NoExc
    /\ caught = NoExc
    /\ audio = NoAudio
    /\ sample_rate = 0
    /\ noise = NoNoise
    /\ pesq_score = NoScore
    /\ powers = NoPowers
    /\ snr = NoSnr
    /\ ret = RetPending
    /\ category = ""
    /\ calls = <<>>
    /\ cleanups = <<>>
    /\ unlink_failed = {}
    /\ ExtraIdle

\* ------------------------------------------------------- convert_to_wav

\* analyze_audio, lines 119-124: wav_file = None, then the call.
Begin ==
    /\ pc = "begin"
    /\ wav_file' = NoPath
    /\ pc' = "magic"
    /\ UNCHANGED <<extra, category, fs, input_file, content, file_type, media_info, temp_wav_path,
                   conv, exc, caught, audio, sample_rate, noise, pesq_score,
                   powers, snr, ret, calls, cleanups, unlink_failed>>

\* convert_to_wav, lines 54-61: libmagic reads the file (and raises when
\* there is none); a WAV file is returned as it is.
DetectType ==
    /\ pc = "magic"
    /\ calls' = Append(calls, Call("magic.from_file", ""))
    /\ IF input_file \notin fs
       THEN /\ exc' = Exc("FileNotFoundError")
            /\ conv' = ConvRaised
            /\ pc' = "except"
            /\ UNCHANGED <<file_type, wav_file>>
       ELSE /\ file_type' = content
            /\ IF is_wav(content)
               THEN /\ conv' = ConvReturned(input_file)
                    /\ wav_file' = input_file
                    /\ pc' = "read"
               ELSE /\ pc' = "probe"
                    /\ UNCHANGED <<conv, wav_file>>
            /\ UNCHANGED exc
    /\ UNCHANGED <<extra, category, fs, input_file, content, media_info, temp_wav_path, caught,
                   audio, sample_rate, noise, pesq_score, powers, snr, ret,
                   cleanups, unlink_failed>>

\* convert_to_wav, lines 63-72: a WebM container has its streams listed.
ProbeWebm ==
    /\ pc = "probe"
    /\ IF file_type = VideoWebm
       THEN \E run \in ProbeRuns :
               /\ media_info' = get_media_info(run)
               /\ file_type' = reclassify(file_type, get_media_info(run))
               /\ calls' = Append(calls, Call("get_media_info", run.run))
       ELSE UNCHANGED <<media_info, file_type, calls>>
    /\ pc' = "check"
    /\ UNCHANGED <<extra, category, fs, input_file, content, temp_wav_path, conv, wav_file, exc,
                   caught, audio, sample_rate, noise, pesq_score, powers, snr,
                   ret, cleanups, unlink_failed>>

\* convert_to_wav, lines 74-76: the ValueError names the detected type.
CheckType ==
    /\ pc = "check"
    /\ IF accepted(file_type)
       THEN /\ pc' = "create"
            /\ UNCHANGED <<exc, conv>>
       ELSE /\ exc' = [type |-> "ValueError", detail |-> file_type]
            /\ conv' = ConvRaised
            /\ pc' = "except"
    /\ UNCHANGED <<extra, category, fs, input_file, content, file_type, media_info, temp_wav_path,
                   wav_file, caught, audio, sample_rate, noise, pesq_score,
                   powers, snr, ret, calls, cleanups, unlink_failed>>

\* convert_to_wav, lines 78-80: a new empty file, or tempfile raises.
CreateTemp ==
    /\ pc = "create"
    /\ calls' = Append(calls, Call("create_temp_wav", ""))
    /\ \/ \E p \in create_temp_wav(fs) :
             /\ temp_wav_path' = p
             /\ fs' = fs \cup {p}
             /\ pc' = "transcode"
             /\ UNCHANGED exc
       \/ /\ exc' = Exc("OSError")
          /\ pc' = "cv_except"
          /\ UNCHANGED <<temp_wav_path, fs>>
    /\ UNCHANGED <<extra, category, input_file, content, file_type, media_info, conv, wav_file,
                   caught, audio, sample_rate, noise, pesq_score, powers, snr,
                   ret, cleanups, unlink_failed>>

\* convert_to_wav, lines 95-101: pydub decodes the input and writes the WAV.
Transcode ==
    /\ pc = "transcode"
    /\ \/ /\ calls' = calls \o <<Call("AudioSegment.from_file", detected_format(file_type)),
                                 Call("export", "wav")>>
          /\ conv' = ConvReturned(temp_wav_path)
          /\ wav_file' = temp_wav_path
          /\ pc' = "read"
          /\ UNCHANGED exc
       \/ /\ calls' = Append(calls, Call("AudioSegment.from_file", detected_format(file_type)))
          /\ exc' = Exc("CouldntDecodeError")
          /\ pc' = "cv_except"
          /\ UNCHANGED <<conv, wav_file>>
       \/ /\ calls' = calls \o <<Call("AudioSegment.from_file", detected_format(file_type)),
                                 Call("export", "wav")>>
          /\ exc' = Exc("CouldntEncodeError")
          /\ pc' = "cv_except"
          /\ UNCHANGED <<conv, wav_file>>
    /\ UNCHANGED <<extra, category, fs, input_file, content, file_type, media_info, temp_wav_path,
                   caught, audio, sample_rate, noise, pesq_score, powers, snr,
                   ret, cleanups, unlink_failed>>

\* convert_to_wav, lines 103-107: the temporary file, if one was made, is
\* cleaned up and the exception is raised again.
ConvertExcept ==
    /\ pc = "cv_except"
    /\ IF temp_wav_path # NoPath
       THEN \E unlink_ok \in BOOLEAN :
               /\ fs' = cleanup_temp_file(temp_wav_path, fs, unlink_ok)
               /\ unlink_failed' =
                     IF cleanup_warns(temp_wav_path, fs, unlink_ok)
                     THEN unlink_failed \cup {temp_wav_path} ELSE unlink_failed
               /\ cleanups' = Append(cleanups, temp_wav_path)
       ELSE UNCHANGED <<fs, unlink_failed, cleanups>>
    /\ conv' = ConvRaised
    /\ pc' = "except"
    /\ UNCHANGED <<extra, category, input_file, content, file_type, media_info, temp_wav_path,
                   wav_file, exc, caught, audio, sample_rate, noise, pesq_score,
                   powers, snr, ret, calls>>

\* --------------------------------------------------------- analyze_audio

\* analyze_audio, line 128: soundfile decodes the WAV file, or raises.
ReadAudio ==
    /\ pc = "read"
    /\ calls' = Append(calls, Call("sf.read", ""))
    /\ \/ \E d \in Decodings, c \in Channels :
             /\ audio' = [len |-> d.len, channels |-> c, power |-> 0]
             /\ sample_rate' = d.rate
             /\ pc' = "condition"
             /\ UNCHANGED exc
       \/ /\ exc' = Exc("LibsndfileError")
          /\ pc' = "except"
          /\ UNCHANGED <<audio, sample_rate>>
    /\ UNCHANGED <<extra, category, fs, input_file, content, file_type, media_info, temp_wav_path,
                   conv, wav_file, caught, noise, pesq_score, powers, snr, ret,
                   cleanups, unlink_failed>>

\* The resampling without line 146: the rate variable keeps the file's rate.
resample_keeps_rate(a, rate) ==
    [audio |-> [a EXCEPT !.len = RoundDiv(a.len * TargetRate, rate)],
     sample_rate |-> rate]

\* The resampling with int() in the place of round().
resample_truncates(a, rate) ==
    [audio |-> [a EXCEPT !.len = (a.len * TargetRate) \div rate],
     sample_rate |-> TargetRate]

\* analyze_audio, lines 144-146: the resampled length and the new rate.
resample(a, rate) ==
    [audio |-> [a EXCEPT !.len = RoundDiv(a.len * TargetRate, rate)],
     sample_rate |-> TargetRate]

\* analyze_audio, lines 131-147: downmix to mono, cast to float32, resample
\* to 16 kHz unless the file is at 16 kHz.  The mean power of the conditioned
\* signal is whatever the samples make it.
Condition ==
    /\ pc = "condition"
    /\ \E p \in PowerValues :
          LET mono == [audio EXCEPT !.channels = 1, !.power = p]
          IN  IF sample_rate # TargetRate
              THEN /\ audio' = resample(mono, sample_rate).audio
                   /\ sample_rate' = resample(mono, sample_rate).sample_rate
                   /\ calls' = Append(calls, Call("signal.resample", ""))
              ELSE /\ audio' = mono
                   /\ UNCHANGED <<sample_rate, calls>>
    /\ pc' = "degrade"
    /\ UNCHANGED <<extra, category, fs, input_file, content, file_type, media_info, temp_wav_path,
                   conv, wav_file, exc, caught, noise, pesq_score, powers, snr,
                   ret, cleanups, unlink_failed>>

\* analyze_audio, lines 149-152: one noise sample per audio sample, drawn from
\* numpy's generator.
Degrade ==
    /\ pc = "degrade"
    /\ \E p \in PowerValues : noise' = [len |-> audio.len, power |-> p]
    /\ calls' = Append(calls, Call("np.random.normal", ""))
    /\ pc' = "pesq"
    /\ UNCHANGED <<extra, category, fs, input_file, content, file_type, media_info, temp_wav_path,
                   conv, wav_file, exc, caught, audio, sample_rate, pesq_score,
                   powers, snr, ret, cleanups, unlink_failed>>

\* analyze_audio, lines 154-157: the pesq library returns a score or raises.
Pesq ==
    /\ pc = "pesq"
    /\ calls' = Append(calls, Call("pesq", "nb"))
    /\ \/ \E s \in Scores :
             /\ pesq_score' = s
             /\ pc' = "snr"
             /\ UNCHANGED exc
       \/ /\ exc' = Exc("PesqError")
          /\ pc' = "except"
          /\ UNCHANGED pesq_score
    /\ UNCHANGED <<extra, category, fs, input_file, content, file_type, media_info, temp_wav_path,
                   conv, wav_file, caught, audio, sample_rate, noise, powers,
                   snr, ret, cleanups, unlink_failed>>

\* analyze_audio, lines 159-164: the two mean powers (np.mean is the stage's
\* first call) and their ratio in dB.
Snr ==
    /\ pc = "snr"
    /\ calls' = Append(calls, Call("np.mean", ""))
    /\ \E kind \in ScalarKinds :
          /\ powers' = [signal |-> audio.power, noise |-> noise.power, kind |-> kind]
          /\ IF snr_of(audio.power, noise.power, kind) = ZeroDiv
             THEN /\ exc' = Exc("ZeroDivisionError")
                  /\ pc' = "except"
                  /\ UNCHANGED snr
             ELSE /\ snr' = snr_of(audio.power, noise.power, kind)
                  /\ pc' = "results"
                  /\ UNCHANGED exc
    /\ UNCHANGED <<extra, category, fs, input_file, content, file_type, media_info, temp_wav_path,
                   conv, wav_file, caught, audio, sample_rate, noise, pesq_score,
                   ret, cleanups, unlink_failed>>

\* analyze_audio, lines 166-171: the dict that is returned.
results(score, snr_value, rate) ==
    [pesq_score |-> Round2(score),
     quality_category |-> categorize_pesq(score),
     snr_db |-> round_snr(snr_value),
     sample_rate |-> rate]

\* analyze_audio, lines 166-174: the score is classified and the results are
\* returned (the finally clause is next).
Results ==
    /\ pc = "results"
    /\ ret' = Returned(results(pesq_score, snr, sample_rate))
    /\ calls' = Append(calls, Call("categorize_pesq", ""))
    /\ pc' = "finally"
    /\ UNCHANGED <<extra, category, fs, input_file, content, file_type, media_info, temp_wav_path,
                   conv, wav_file, exc, caught, audio, sample_rate, noise,
                   pesq_score, powers, snr, cleanups, unlink_failed>>

\* analyze_audio, lines 176-178: what the handler does with an exception.
handle(e) == Returned(None)

\* The handler sending a failed PESQ computation back to the scorer once.
Except_retries_pesq ==
    /\ pc = "except"
    /\ caught' = exc
    /\ exc' = NoExc
    /\ IF exc.type = "PesqError" /\ caught = NoExc
       THEN /\ pc' = "pesq"
            /\ UNCHANGED ret
       ELSE /\ ret' = handle(exc)
            /\ pc' = "finally"
    /\ UNCHANGED <<extra, category, fs, input_file, content, file_type, media_info, temp_wav_path,
                   conv, wav_file, audio, sample_rate, noise, pesq_score, powers,
                   snr, calls, cleanups, unlink_failed>>

\* analyze_audio, lines 176-178: any Exception of the try block ends here.
Except ==
    /\ pc = "except"
    /\ caught' = exc
    /\ exc' = NoExc
    /\ ret' = handle(exc)
    /\ pc' = "finally"
    /\ UNCHANGED <<extra, category, fs, input_file, content, file_type, media_info, temp_wav_path,
                   conv, wav_file, audio, sample_rate, noise, pesq_score, powers,
                   snr, calls, cleanups, unlink_failed>>

\* The finally clause never cleaning up.
owns_temp_never(wav, inp) == FALSE

\* The finally clause without the comparison to input_file.
owns_temp_unchecked(wav, inp) == wav # NoPath

\* analyze_audio, line 181: whether the finally clause cleans wav_file up.
owns_temp(wav, inp) == wav # NoPath /\ wav # inp

\* analyze_audio, lines 179-182: the finally clause; then the call is over.
Finally ==
    /\ pc = "finally"
    /\ IF owns_temp(wav_file, input_file)
       THEN \E unlink_ok \in BOOLEAN :
               /\ fs' = cleanup_temp_file(wav_file, fs, unlink_ok)
               /\ unlink_failed' =
                     IF cleanup_warns(wav_file, fs, unlink_ok)
                     THEN unlink_failed \cup {wav_file} ELSE unlink_failed
               /\ cleanups' = Append(cleanups, wav_file)
       ELSE UNCHANGED <<fs, unlink_failed, cleanups>>
    /\ pc' = "done"
    /\ UNCHANGED <<extra, category, input_file, content, file_type, media_info, temp_wav_path,
                   conv, wav_file, exc, caught, audio, sample_rate, noise,
                   pesq_score, powers, snr, ret, calls>>

Next ==
    \/ Begin
    \/ DetectType
    \/ ProbeWebm
    \/ CheckType
    \/ CreateTemp
    \/ Transcode
    \/ ConvertExcept
    \/ ReadAudio
    \/ Condition
    \/ Degrade
    \/ Pesq
    \/ Snr
    \/ Results
    \/ Except
    \/ Finally

Spec == Init /\ [][Next]_vars

\* ------------------------------------------- the classifier, called directly

InitClassify ==
    /\ input_file \in InputPaths
    /\ content = WavMime
    /\ fs = {input_file}
    /\ pc = "classify"
    /\ file_type = NoMime
    /\ media_info = NoInfo
    /\ temp_wav_path = NoPath
    /\ conv = ConvPending
    /\ wav_file = NoPath
    /\ exc = NoExc
    /\ caught = NoExc
    /\ audio = NoAudio
    /\ sample_rate = 0
    /\ noise = NoNoise
    /\ pesq_score \in ClassifyScores
    /\ powers = NoPowers
    /\ snr = NoSnr
    /\ ret = RetPending
    /\ category = ""
    /\ calls = <<>>
    /\ cleanups = <<>>
    /\ unlink_failed = {}
    /\ ExtraIdle

\* A call of AudioAnalyzer.categorize_pesq with a score.
Classify ==
    /\ pc = "classify"
    /\ category' = categorize_pesq(pesq_score)
    /\ pc' = "classified"
    /\ UNCHANGED <<extra, fs, input_file, content, file_type, media_info, temp_wav_path,
                   conv, wav_file, exc, caught, audio, sample_rate, noise,
                   pesq_score, powers, snr, ret, calls, cleanups, unlink_failed>>

SpecClassify == InitClassify /\ [][Classify]_vars

\* The one-invocation pipeline at rest, while other components are watched.
PipelineIdle ==
    /\ input_file = NoPath
    /\ content = NoMime
    /\ fs = {}
    /\ pc = "idle"
    /\ file_type = NoMime
    /\ media_info = NoInfo
    /\ temp_wav_path = NoPath
    /\ conv = ConvPending
    /\ wav_file = NoPath
    /\ exc = NoExc
    /\ caught = NoExc
    /\ audio = NoAudio
    /\ sample_rate = 0
    /\ noise = NoNoise
    /\ pesq_score = NoScore
    /\ powers = NoPowers
    /\ snr = NoSnr
    /\ ret = RetPending
    /\ category = ""
    /\ calls = <<>>
    /\ cleanups = <<>>
    /\ unlink_failed = {}

\* ----------------------------------------- several invocations side by side

\* What analyze_audio returns when it has results.
ResultDict == [none |-> FALSE]

\* analyze_audio is called NumInvocations times at once, each call with a file
\* of its own; the temporary directory is empty.
InitConcurrent ==
    /\ PipelineIdle
    /\ S3Idle
    /\ ApiIdle
    /\ tmpdir = {}
    /\ np_random = 0
    /\ inv = [i \in Invocations |->
                [IdleInv EXCEPT !.pc = "detect",
                                !.input_file = [dir |-> "in", n |-> i, suffix |-> ""]]]

\* convert_to_wav, lines 54-76: the type is detected and checked; the file is
\* not a WAV file, so it goes on to the conversion or is refused.
ConcDetect(i) ==
    /\ inv[i].pc = "detect"
    /\ \E ok \in BOOLEAN :
          inv' = [inv EXCEPT ![i].pc = IF ok THEN "create" ELSE "except"]
    /\ UNCHANGED <<tmpdir, np_random, not_concurrent>>

\* convert_to_wav, lines 78-80: tempfile creates a file that did not exist, or
\* raises.
ConcCreateTemp(i) ==
    /\ inv[i].pc = "create"
    /\ \/ \E p \in create_temp_wav(tmpdir) :
             /\ tmpdir' = tmpdir \cup {p}
             /\ inv' = [inv EXCEPT ![i].temp_wav_path = p, ![i].pc = "transcode"]
       \/ /\ inv' = [inv EXCEPT ![i].pc = "cv_except"]
          /\ UNCHANGED tmpdir
    /\ UNCHANGED <<np_random, not_concurrent>>

\* convert_to_wav, lines 95-101: the transcoder writes the file, or raises.
ConcTranscode(i) ==
    /\ inv[i].pc = "transcode"
    /\ \/ inv' = [inv EXCEPT ![i].wav_file = inv[i].temp_wav_path, ![i].pc = "read"]
       \/ inv' = [inv EXCEPT ![i].pc = "cv_except"]
    /\ UNCHANGED <<tmpdir, np_random, not_concurrent>>

\* convert_to_wav, lines 103-107.
ConcConvertExcept(i) ==
    /\ inv[i].pc = "cv_except"
    /\ IF inv[i].temp_wav_path # NoPath
       THEN \E unlink_ok \in BOOLEAN :
               /\ tmpdir' = cleanup_temp_file(inv[i].temp_wav_path, tmpdir, unlink_ok)
               /\ inv' = [inv EXCEPT
                            ![i].cleanups = Append(@, inv[i].temp_wav_path),
                            ![i].pc = "except"]
       ELSE /\ inv' = [inv EXCEPT ![i].pc = "except"]
            /\ UNCHANGED tmpdir
    /\ UNCHANGED <<np_random, not_concurrent>>

\* analyze_audio, lines 126-147: the WAV file is read and conditioned, or an
\* exception is raised.
ConcReadCondition(i) ==
    /\ inv[i].pc = "read"
    /\ \E ok \in BOOLEAN :
          inv' = [inv EXCEPT ![i].pc = IF ok THEN "degrade" ELSE "except"]
    /\ UNCHANGED <<tmpdir, np_random, not_concurrent>>

\* analyze_audio, lines 149-152: np.random.normal reads the state of the
\* module's generator and advances it.
ConcDegrade(i) ==
    /\ inv[i].pc = "degrade"
    /\ inv' = [inv EXCEPT ![i].noise = [generator |-> ModuleGenerator,
                                        state |-> np_random],
                          ![i].pc = "score"]
    /\ np_random' = np_random + 1
    /\ UNCHANGED <<tmpdir, not_concurrent>>

\* analyze_audio, lines 154-174: PESQ, SNR and the results, or an exception.
ConcScore(i) ==
    /\ inv[i].pc = "score"
    /\ \/ inv' = [inv EXCEPT ![i].ret = Returned(ResultDict), ![i].pc = "finally"]
       \/ inv' = [inv EXCEPT ![i].pc = "except"]
    /\ UNCHANGED <<tmpdir, np_random, not_concurrent>>

\* analyze_audio, lines 176-178.
ConcExcept(i) ==
    /\ inv[i].pc = "except"
    /\ inv' = [inv EXCEPT ![i].ret = handle(Exc("Exception")), ![i].pc = "finally"]
    /\ UNCHANGED <<tmpdir, np_random, not_concurrent>>

\* analyze_audio, lines 179-182.
ConcFinally(i) ==
    /\ inv[i].pc = "finally"
    /\ IF owns_temp(inv[i].wav_file, inv[i].input_file)
       THEN \E unlink_ok \in BOOLEAN :
               /\ tmpdir' = cleanup_temp_file(inv[i].wav_file, tmpdir, unlink_ok)
               /\ inv' = [inv EXCEPT
                            ![i].cleanups = Append(@, inv[i].wav_file),
                            ![i].pc = "done"]
       ELSE /\ inv' = [inv EXCEPT ![i].pc = "done"]
            /\ UNCHANGED tmpdir
    /\ UNCHANGED <<np_random, not_concurrent>>

ConcStep(i) ==
    \/ ConcDetect(i)
    \/ ConcCreateTemp(i)
    \/ ConcTranscode(i)
    \/ ConcConvertExcept(i)
    \/ ConcReadCondition(i)
    \/ ConcDegrade(i)
    \/ ConcScore(i)
    \/ ConcExcept(i)
    \/ ConcFinally(i)

NextConcurrent == \E i \in Invocations : ConcStep(i)

\* Every invocation is a thread the interpreter keeps scheduling.
SpecConcurrent ==
    /\ InitConcurrent
    /\ [][NextConcurrent]_vars
    /\ \A i \in Invocations : WF_vars(ConcStep(i))

\* ------------------------------------ S3ClientManager and the threads on it

\* The manager as its constructor left it: credentials, an expiry and a client.
Constructed(e) ==
    /\ instance = 1
    /\ instance_lock = 0
    /\ constructed = <<Construction(0, "ok", TRUE)>>
    /\ credentials = Credentials(0)
    /\ credentials_expiry = At(e)
    /\ s3_client = Client(0)
    /\ refresh_lock = 0
    /\ fetches = <<>>

\* When the credentials of a constructed manager end, the clock being at 0:
\* in the past, now, at the margin, just beyond it, an hour from now.
Expiries == {0 - RefreshMargin, 0, RefreshMargin, RefreshMargin + 1,
             RefreshMargin + 2, CredentialLifetime}

\* A thread about to run an operation.
StartThread(op, at, m) == [IdleThread EXCEPT !.op = op, !.pc = at, !.max_retries = m]

\* What put_object can come to: success, a ClientError with the code
\* ExpiredToken or with another code, NoCredentialsError, another exception.
PutOutcomes == {"ok", "ExpiredToken", "AccessDenied", "NoCredentialsError", "other"}

\* The clock goes on.
Tick ==
    /\ now < MaxTick
    /\ now' = now + 1
    /\ UNCHANGED <<credentials, credentials_expiry, s3_client, refresh_lock, fetches,
                   th, not_s3>>

\* S3ClientManager.__init__, lines 35-38: the attributes are None and
\* _refresh_credentials is called.
Construct(t) ==
    /\ th[t].pc = "init_call"
    /\ s3_client' = NoClient
    /\ credentials' = NoCredentials
    /\ credentials_expiry' = NoExpiry
    /\ th' = [th EXCEPT ![t].before = Attributes(NoCredentials, NoExpiry, NoClient),
                        ![t].cont = "init_return",
                        ![t].pc = "rc_read"]
    /\ UNCHANGED <<now, refresh_lock, fetches, not_s3>>

\* S3ClientManager.__init__, line 39: the constructor is through, for its
\* caller or for get_instance, line 47.
ConstructReturn(t) ==
    /\ th[t].pc = "init_return"
    /\ th' = [th EXCEPT
                ![t].res = IF th[t].op = "get_instance" THEN @ ELSE "returned",
                ![t].pc = IF th[t].op = "get_instance" THEN "gi_assign" ELSE "done"]
    /\ UNCHANGED <<now, credentials, credentials_expiry, s3_client, refresh_lock,
                   fetches, not_s3>>

\* get_client, line 170: the call of _refresh_credentials.
GetClientCall(t) ==
    /\ th[t].pc = "gc_call"
    /\ th' = [th EXCEPT
                ![t].before = Attributes(credentials, credentials_expiry, s3_client),
                ![t].cont = "gc_return",
                ![t].pc = "rc_read"]
    /\ UNCHANGED <<now, credentials, credentials_expiry, s3_client, refresh_lock,
                   fetches, not_s3>>

\* _should_refresh_credentials, line 79: the expiry is read once.
ShouldRead(t) ==
    /\ th[t].pc \in {"rc_read", "rc_reread"}
    /\ th' = [th EXCEPT ![t].expiry = credentials_expiry,
                        ![t].pc = IF th[t].pc = "rc_read" THEN "rc_quick" ELSE "rc_check"]
    /\ UNCHANGED <<now, credentials, credentials_expiry, s3_client, refresh_lock,
                   fetches, not_s3>>

\* _refresh_credentials, lines 88-90: the check without the lock.
QuickCheck(t) ==
    /\ th[t].pc = "rc_quick"
    /\ th' = [th EXCEPT
                ![t].check = [made |-> TRUE, locked |-> FALSE,
                              credentials |-> credentials,
                              expiry |-> th[t].expiry, now |-> now],
                ![t].pc = IF should_refresh_credentials(credentials, th[t].expiry, now)
                          THEN "rc_lock" ELSE th[t].cont]
    /\ UNCHANGED <<now, credentials, credentials_expiry, s3_client, refresh_lock,
                   fetches, not_s3>>

\* _refresh_credentials, line 93: the lock is taken when it is free.
AcquireLock(t) ==
    /\ th[t].pc = "rc_lock"
    /\ refresh_lock = 0
    /\ refresh_lock' = t
    /\ th' = [th EXCEPT ![t].pc = "rc_reread"]
    /\ UNCHANGED <<now, credentials, credentials_expiry, s3_client, fetches, not_s3>>

\* _refresh_credentials, lines 94-96: the check under the lock; returning
\* leaves the with block and frees the lock.
DoubleCheck(t) ==
    /\ th[t].pc = "rc_check"
    /\ th' = [th EXCEPT
                ![t].check = [made |-> TRUE, locked |-> TRUE,
                              credentials |-> credentials,
                              expiry |-> th[t].expiry, now |-> now],
                ![t].pc = IF recheck_under_lock(credentials, th[t].expiry, now)
                          THEN "rc_fetch" ELSE th[t].cont]
    /\ refresh_lock' = IF recheck_under_lock(credentials, th[t].expiry, now)
                       THEN refresh_lock ELSE 0
    /\ UNCHANGED <<now, credentials, credentials_expiry, s3_client, fetches, not_s3>>

\* _refresh_credentials, lines 98-99 and 111-113: Cognito hands out new
\* credentials, or the call fails; the failure is logged and raised again,
\* which frees the lock and ends the thread's operation (get_client has no
\* handler, upload_file_to_s3 raises in lines 218-220 and 228-230), or goes
\* on through the constructor to get_instance.
Fetch(t) ==
    /\ th[t].pc = "rc_fetch"
    /\ \E ok \in BOOLEAN :
          /\ fetches' = Append(fetches, [by |-> t, ok |-> ok])
          /\ IF ok
             THEN /\ th' = [th EXCEPT
                              ![t].new_credentials = Credentials(Len(fetches) + 1),
                              ![t].fetched = @ + 1,
                              ![t].pc = "rc_set_credentials"]
                  /\ UNCHANGED refresh_lock
             ELSE /\ th' = [th EXCEPT
                              ![t].fetched = @ + 1,
                              ![t].res = IF th[t].op = "get_instance" THEN @
                                         ELSE "raised",
                              ![t].pc = IF th[t].op = "get_instance" THEN "gi_raise"
                                        ELSE "done"]
                  /\ refresh_lock' = 0
    /\ UNCHANGED <<now, credentials, credentials_expiry, s3_client, not_s3>>

\* _refresh_credentials, line 101.
SetCredentials(t) ==
    /\ th[t].pc = "rc_set_credentials"
    /\ credentials' = th[t].new_credentials
    /\ th' = [th EXCEPT ![t].pc = "rc_set_expiry"]
    /\ UNCHANGED <<now, credentials_expiry, s3_client, refresh_lock, fetches, not_s3>>

\* _refresh_credentials, line 102.
SetExpiry(t) ==
    /\ th[t].pc = "rc_set_expiry"
    /\ credentials_expiry' = At(now + CredentialLifetime)
    /\ th' = [th EXCEPT ![t].pc = "rc_set_client"]
    /\ UNCHANGED <<now, credentials, s3_client, refresh_lock, fetches, not_s3>>

\* _refresh_credentials, lines 103-110: the client is built from the new
\* credentials; the with block is left and the lock is free.
SetClient(t) ==
    /\ th[t].pc = "rc_set_client"
    /\ s3_client' = Client(th[t].new_credentials.serial)
    /\ refresh_lock' = 0
    /\ th' = [th EXCEPT ![t].pc = th[t].cont]
    /\ UNCHANGED <<now, credentials, credentials_expiry, fetches, not_s3>>

\* get_client, line 171: the client attribute is read and returned, to the
\* caller or to upload_file_to_s3, line 198.
GetClientReturn(t) ==
    /\ th[t].pc = "gc_return"
    /\ th' = [th EXCEPT
                ![t].s3_client = s3_client,
                ![t].res = IF th[t].op = "get_client" THEN "returned" ELSE @,
                ![t].pc = IF th[t].op = "get_client" THEN "done" ELSE "up_put"]
    /\ UNCHANGED <<now, credentials, credentials_expiry, s3_client, refresh_lock,
                   fetches, not_s3>>

\* The seconds the clock can show within the minute: not before a second
\* another thread has read in it.
SecondsNow ==
    {sec \in 0..MaxSecond :
        \A u \in Threads :
            (~th[u].file_name.none /\ th[u].file_name.minute = now)
                => sec >= th[u].file_name.second}

\* upload_file_to_s3, lines 190-193: the object key is made once, before the
\* loop, from the clock.
UploadCall(t) ==
    /\ th[t].pc = "up_call"
    /\ \E sec \in SecondsNow :
          th' = [th EXCEPT ![t].file_name = generate_file_name(now, sec),
                           ![t].retry_count = 0,
                           ![t].pc = "up_open"]
    /\ UNCHANGED <<now, credentials, credentials_expiry, s3_client, refresh_lock,
                   fetches, not_s3>>

\* A ClientError was caught: last_error of line 211 is set.
last_error(puts) ==
    \E i \in DOMAIN puts : puts[i].outcome \in {"ExpiredToken", "AccessDenied"}

\* upload_file_to_s3, lines 195 and 232-233: the loop is not entered, or not
\* again; with last_error an exception is raised, without it the function
\* comes to its end and returns None.
UploadExhausted(t) ==
    /\ th[t].pc = "up_open"
    /\ ~(th[t].retry_count <= th[t].max_retries)
    /\ th' = [th EXCEPT ![t].res = IF last_error(th[t].puts) THEN "raised"
                                   ELSE "returned None",
                        ![t].pc = "done"]
    /\ UNCHANGED <<now, credentials, credentials_expiry, s3_client, refresh_lock,
                   fetches, not_s3>>

\* upload_file_to_s3, lines 195-198: the loop is entered, the file is opened
\* and get_client is called; when the file cannot be opened, lines 228-230
\* raise.
UploadOpen(t) ==
    /\ th[t].pc = "up_open"
    /\ th[t].retry_count <= th[t].max_retries
    /\ \E opened \in BOOLEAN :
          th' = [th EXCEPT ![t].res = IF opened THEN @ ELSE "raised",
                           ![t].pc = IF opened THEN "gc_call" ELSE "done"]
    /\ UNCHANGED <<now, credentials, credentials_expiry, s3_client, refresh_lock,
                   fetches, not_s3>>

\* Every ClientError tried again while retries remain.
retries_any_client_error(outcome, retry_count, max_retries) ==
    outcome \in {"ExpiredToken", "AccessDenied"} /\ retry_count < max_retries

\* upload_file_to_s3, line 212: whether a failed attempt is tried again.
retries(outcome, retry_count, max_retries) ==
    outcome = "ExpiredToken" /\ retry_count < max_retries

\* upload_file_to_s3, lines 199-230: put_object with the client get_client
\* returned.  It succeeds and the URL is returned, or it fails with
\* ExpiredToken while retries remain and _refresh_credentials is called,
\* or an exception is raised.
PutObject(t) ==
    /\ th[t].pc = "up_put"
    /\ \E o \in PutOutcomes :
          th' = [th EXCEPT
                   ![t].puts = Append(@, [client |-> th[t].s3_client,
                                          fetches |-> Len(fetches),
                                          outcome |-> o,
                                          key |-> th[t].file_name]),
                   ![t].cont = IF retries(o, th[t].retry_count, th[t].max_retries)
                               THEN "up_refreshed" ELSE @,
                   ![t].res = IF o = "ok" THEN "returned"
                              ELSE IF retries(o, th[t].retry_count, th[t].max_retries)
                                   THEN @ ELSE "raised",
                   ![t].pc = IF retries(o, th[t].retry_count, th[t].max_retries)
                             THEN "rc_read" ELSE "done"]
    /\ UNCHANGED <<now, credentials, credentials_expiry, s3_client, refresh_lock,
                   fetches, not_s3>>

\* upload_file_to_s3, lines 216-217: _refresh_credentials has returned.
UploadRetry(t) ==
    /\ th[t].pc = "up_refreshed"
    /\ th' = [th EXCEPT ![t].retry_count = @ + 1, ![t].pc = "up_open"]
    /\ UNCHANGED <<now, credentials, credentials_expiry, s3_client, refresh_lock,
                   fetches, not_s3>>

\* A step of a thread inside get_client.
GetClientStep(t) ==
    \/ GetClientCall(t)
    \/ ShouldRead(t)
    \/ QuickCheck(t)
    \/ AcquireLock(t)
    \/ DoubleCheck(t)
    \/ Fetch(t)
    \/ SetCredentials(t)
    \/ SetExpiry(t)
    \/ SetClient(t)
    \/ GetClientReturn(t)

\* Every thread calls get_client on a manager whose credentials have ended or
\* are within the margin of their end.
InitRefresh ==
    /\ PipelineIdle
    /\ ConcurrentIdle
    /\ ApiIdle
    /\ now = 0
    /\ \E e \in {x \in Expiries : x <= RefreshMargin} : Constructed(e)
    /\ th = [t \in Threads |-> StartThread("get_client", "gc_call", 0)]

\* The calls are over within the minute: the clock stands still.
NextRefresh == \E t \in Threads : GetClientStep(t)

\* Threads are scheduled again and again.
SpecRefresh ==
    /\ InitRefresh
    /\ [][NextRefresh]_vars
    /\ \A t \in Threads : WF_vars(GetClientStep(t))

\* One thread calls get_client on a constructed manager, or constructs the
\* manager.
InitGetClient ==
    /\ PipelineIdle
    /\ ConcurrentIdle
    /\ ApiIdle
    /\ now = 0
    /\ \/ /\ \E e \in Expiries : Constructed(e)
          /\ th = [t \in Threads |-> IF t = 1 THEN StartThread("get_client", "gc_call", 0)
                                     ELSE IdleThread]
       \/ /\ NoManager
          /\ credentials = NoCredentials
          /\ credentials_expiry = NoExpiry
          /\ s3_client = NoClient
          /\ refresh_lock = 0
          /\ fetches = <<>>
          /\ th = [t \in Threads |-> IF t = 1 THEN StartThread("init", "init_call", 0)
                                     ELSE IdleThread]

NextGetClient ==
    \/ \E t \in Threads : Construct(t) \/ ConstructReturn(t) \/ GetClientStep(t)
    \/ Tick

SpecGetClient == InitGetClient /\ [][NextGetClient]_vars

\* A step of a thread inside upload_file_to_s3.
UploadStep(t) ==
    \/ UploadCall(t)
    \/ UploadExhausted(t)
    \/ UploadOpen(t)
    \/ PutObject(t)
    \/ UploadRetry(t)
    \/ GetClientStep(t)

\* One thread calls upload_file_to_s3, with one of the values of
\* max_retries, on a constructed manager.
InitUpload ==
    /\ PipelineIdle
    /\ ConcurrentIdle
    /\ ApiIdle
    /\ now = 0
    /\ \E e \in Expiries : Constructed(e)
    /\ \E m \in MaxRetriesValues :
          th = [t \in Threads |-> IF t = 1 THEN StartThread("upload", "up_call", m)
                                  ELSE IdleThread]

NextUpload ==
    \/ \E t \in Threads : UploadStep(t)
    \/ Tick

SpecUpload == InitUpload /\ [][NextUpload]_vars

\* The thread of the upload is scheduled again and again.
SpecUploadFair == SpecUpload /\ \A t \in Threads : WF_vars(UploadStep(t))

\* Every thread calls upload_file_to_s3 with the default max_retries, on a
\* constructed manager.
InitUploads ==
    /\ PipelineIdle
    /\ ConcurrentIdle
    /\ ApiIdle
    /\ now = 0
    /\ \E e \in Expiries : Constructed(e)
    /\ th = [t \in Threads |-> StartThread("upload", "up_call", DefaultMaxRetries)]

\* The uploads are over within the minute: the clock, which counts minutes,
\* stands still, the seconds go on.
NextUploads ==
    \E t \in Threads :
        UploadCall(t) \/ UploadOpen(t) \/ PutObject(t) \/ UploadRetry(t)
          \/ GetClientStep(t)

SpecUploads == InitUploads /\ [][NextUploads]_vars

\* A caller that is between operations calls force_token_expiration,
\* force_refresh_token or get_token_status on the manager.
StartToken(t) ==
    /\ th[t].op \in {"caller"} \cup TokenOps
    /\ th[t].pc = "done"
    /\ Len(th[t].history) < MaxTokenCalls
    /\ \E op \in TokenOps :
          th' = [th EXCEPT
                   ![t] = [StartThread(op, CASE op = "force_token_expiration" -> "fe_call"
                                            [] op = "force_refresh_token" -> "fr_call"
                                            [] op = "get_token_status" -> "ts_status", 0)
                           EXCEPT !.history =
                                     Append(th[t].history,
                                            TokenCall(op, credentials, credentials_expiry,
                                                      s3_client, Len(fetches)))]]
    /\ UNCHANGED <<now, credentials, credentials_expiry, s3_client, refresh_lock,
                   fetches, not_s3>>

\* force_token_expiration, lines 164-165: an expiry there is becomes the
\* clock's time.
ForceExpire(t) ==
    /\ th[t].pc = "fe_call"
    /\ credentials_expiry' = IF credentials_expiry.none THEN credentials_expiry
                             ELSE At(now)
    /\ th' = [th EXCEPT ![t].pc = "ts_status"]
    /\ UNCHANGED <<now, credentials, s3_client, refresh_lock, fetches, not_s3>>

\* force_refresh_token, line 154: the call of _refresh_credentials.
ForceRefresh(t) ==
    /\ th[t].pc = "fr_call"
    /\ th' = [th EXCEPT
                ![t].before = Attributes(credentials, credentials_expiry, s3_client),
                ![t].cont = "ts_status",
                ![t].pc = "rc_read"]
    /\ UNCHANGED <<now, credentials, credentials_expiry, s3_client, refresh_lock,
                   fetches, not_s3>>

\* get_token_status as called, and as returned in lines 155 and 166: the
\* status is computed and handed to the caller.
TokenStatus(t) ==
    /\ th[t].pc = "ts_status"
    /\ th' = [th EXCEPT
                ![t].history[Len(th[t].history)] =
                    [@ EXCEPT !.returned = TRUE,
                              !.status = get_token_status(credentials_expiry, now),
                              !.fetches_after = Len(fetches)],
                ![t].res = "returned",
                ![t].pc = "done"]
    /\ UNCHANGED <<now, credentials, credentials_expiry, s3_client, refresh_lock,
                   fetches, not_s3>>

\* A step of a thread inside _refresh_credentials.
RefreshStep(t) ==
    \/ ShouldRead(t)
    \/ QuickCheck(t)
    \/ AcquireLock(t)
    \/ DoubleCheck(t)
    \/ Fetch(t)
    \/ SetCredentials(t)
    \/ SetExpiry(t)
    \/ SetClient(t)

\* One caller, with a constructed manager, makes token operations one after
\* the other.
InitToken ==
    /\ PipelineIdle
    /\ ConcurrentIdle
    /\ ApiIdle
    /\ now = 0
    /\ \E e \in Expiries : Constructed(e)
    /\ th = [t \in Threads |-> IF t = 1 THEN [IdleThread EXCEPT !.op = "caller"]
                               ELSE IdleThread]

NextToken ==
    \/ \E t \in Threads :
          StartToken(t) \/ ForceExpire(t) \/ ForceRefresh(t) \/ TokenStatus(t)
            \/ RefreshStep(t)
    \/ Tick

SpecToken == InitToken /\ [][NextToken]_vars

\* --------------------------------------------- S3ClientManager.get_instance

\* The entry a call of get_instance gets in its caller's history: how many
\* constructor calls there had been, and the instance there was.
InstanceCall(n, inst) == [op |-> "get_instance", constructions |-> n, found |-> inst]

\* The calls of get_instance made so far.
InstanceCalls == {c \in Threads \X (1..MaxInstanceCalls) : c[2] \in DOMAIN th[c[1]].history}

\* A thread that is between calls calls get_instance.
StartGetInstance(t) ==
    /\ th[t].op \in {"caller", "get_instance"}
    /\ th[t].pc = "done"
    /\ Cardinality(InstanceCalls) < MaxInstanceCalls
    /\ th' = [th EXCEPT
                ![t] = [StartThread("get_instance", "gi_check", 0)
                        EXCEPT !.history = Append(th[t].history,
                                                  InstanceCall(Len(constructed),
                                                               instance))]]
    /\ UNCHANGED <<now, credentials, credentials_expiry, s3_client, refresh_lock,
                   fetches, class_vars, not_class>>

\* get_instance, line 43: the check without the lock.
GetInstanceCheck(t) ==
    /\ th[t].pc = "gi_check"
    /\ th' = [th EXCEPT ![t].pc = IF instance_missing(instance) THEN "gi_lock"
                                  ELSE "gi_return"]
    /\ UNCHANGED <<now, credentials, credentials_expiry, s3_client, refresh_lock,
                   fetches, class_vars, not_class>>

\* get_instance, line 44: the lock is taken when it is free.
GetInstanceLock(t) ==
    /\ th[t].pc = "gi_lock"
    /\ instance_lock = 0
    /\ instance_lock' = t
    /\ th' = [th EXCEPT ![t].pc = "gi_recheck"]
    /\ UNCHANGED <<now, credentials, credentials_expiry, s3_client, refresh_lock,
                   fetches, instance, constructed, not_class>>

\* get_instance, lines 45-47: the check under the lock; with an instance
\* there the with block is left, without one the constructor is called.
GetInstanceRecheck(t) ==
    /\ th[t].pc = "gi_recheck"
    /\ IF instance_missing(instance)
       THEN /\ th' = [th EXCEPT ![t].pc = "init_env"]
            /\ UNCHANGED instance_lock
       ELSE /\ th' = [th EXCEPT ![t].pc = "gi_return"]
            /\ instance_lock' = 0
    /\ UNCHANGED <<now, credentials, credentials_expiry, s3_client, refresh_lock,
                   fetches, instance, constructed, not_class>>

\* S3ClientManager.__init__, lines 20-34, called in line 47: with an
\* environment variable missing ValueError is raised, which get_instance
\* logs and raises again (lines 48-50), leaving the with block.
ConstructEnv(t) ==
    /\ th[t].pc = "init_env"
    /\ \E env_ok \in BOOLEAN :
          IF env_ok
          THEN /\ constructed' = Append(constructed, Construction(t, "running", FALSE))
               /\ th' = [th EXCEPT ![t].pc = "init_call"]
               /\ UNCHANGED instance_lock
          ELSE /\ constructed' = Append(constructed, Construction(t, "ValueError", FALSE))
               /\ th' = [th EXCEPT ![t].res = "raised", ![t].pc = "done"]
               /\ instance_lock' = 0
    /\ UNCHANGED <<now, credentials, credentials_expiry, s3_client, refresh_lock,
                   fetches, instance, not_class>>

\* get_instance, line 47: an exception of the constructor other than
\* ValueError has no handler; it leaves the with block and get_instance.
GetInstanceRaise(t) ==
    /\ th[t].pc = "gi_raise"
    /\ constructed' = [constructed EXCEPT ![Len(constructed)].outcome = "Exception"]
    /\ instance_lock' = 0
    /\ th' = [th EXCEPT ![t].res = "raised", ![t].pc = "done"]
    /\ UNCHANGED <<now, credentials, credentials_expiry, s3_client, refresh_lock,
                   fetches, instance, not_class>>

\* __init__, line 39, and get_instance, line 47: the constructor has
\* returned, the object is assigned to cls._instance and the with block is
\* left.
GetInstanceAssign(t) ==
    /\ th[t].pc = "gi_assign"
    /\ constructed' = [constructed EXCEPT ![Len(constructed)].outcome = "ok",
                                          ![Len(constructed)].initialized = TRUE]
    /\ instance' = Len(constructed)
    /\ instance_lock' = 0
    /\ th' = [th EXCEPT ![t].pc = "gi_return"]
    /\ UNCHANGED <<now, credentials, credentials_expiry, s3_client, refresh_lock,
                   fetches, not_class>>

\* get_instance, line 51: cls._instance is read and returned.
GetInstanceReturn(t) ==
    /\ th[t].pc = "gi_return"
    /\ th' = [th EXCEPT ![t].instance = instance,
                        ![t].res = "returned",
                        ![t].pc = "done"]
    /\ UNCHANGED <<now, credentials, credentials_expiry, s3_client, refresh_lock,
                   fetches, class_vars, not_class>>

\* A step of a thread inside get_instance.
GetInstanceStep(t) ==
    \/ StartGetInstance(t)
    \/ GetInstanceCheck(t)
    \/ GetInstanceLock(t)
    \/ GetInstanceRecheck(t)
    \/ ConstructEnv(t)
    \/ Construct(t)
    \/ RefreshStep(t)
    \/ ConstructReturn(t)
    \/ GetInstanceRaise(t)
    \/ GetInstanceAssign(t)
    \/ GetInstanceReturn(t)

\* The class as it is loaded: no instance; every thread is about to call
\* get_instance.
InitInstance ==
    /\ PipelineIdle
    /\ ConcurrentIdle
    /\ ApiIdle
    /\ NoManager
    /\ now = 0
    /\ credentials = NoCredentials
    /\ credentials_expiry = NoExpiry
    /\ s3_client = NoClient
    /\ refresh_lock = 0
    /\ fetches = <<>>
    /\ th = [t \in Threads |-> [IdleThread EXCEPT !.op = "caller"]]

NextInstance == \E t \in Threads : GetInstanceStep(t)

SpecInstance == InitInstance /\ [][NextInstance]_vars

\* --------------------------------------------------- the analysis endpoints

\* The finally clause never unlinking.
must_unlink_never(path, disk) == FALSE

\* routers.py, lines 164 and 237: temp_file_path and os.path.exists(...).
must_unlink(path, disk) == path # NoPath /\ path \in disk

\* A request arrives at /analyze or at /recording-session/{id}/analyze; the
\* session it names exists or not; a file of another request may be on disk.
InitApi ==
    /\ PipelineIdle
    /\ ConcurrentIdle
    /\ S3Idle
    /\ \E e \in {"analyze", "analyze_session"} :
          rq = [IdleRq EXCEPT !.endpoint = e,
                              !.pc = IF e = "analyze" THEN "a_create" ELSE "s_get"]
    /\ \E found \in BOOLEAN, loc \in {"", "earlier_url"} :
          session = IF found /\ rq.endpoint = "analyze_session"
                    THEN [NoSession EXCEPT !.found = TRUE, !.s3_location = loc]
                    ELSE NoSession
    /\ \E other \in SUBSET ApiPaths : Cardinality(other) <= 1 /\ api_fs = other
    /\ s3_future = NoFuture
    /\ db_rows = <<>>

\* analyze_session_audio, lines 202-207: the session is looked up; when there
\* is none, HTTPException(404) is raised inside the outer try.
GetSession ==
    /\ rq.pc = "s_get"
    /\ rq' = IF session.found
             THEN [rq EXCEPT !.pc = "s_create"]
             ELSE [rq EXCEPT !.raised = "HTTPException404", !.pc = "s_outer_except"]
    /\ UNCHANGED <<api_fs, s3_future, session, db_rows, not_api>>

\* _create_local_temp_file, lines 60-70, called in lines 152 and 212:
\* NamedTemporaryFile makes a file and the upload is written to it, or
\* NamedTemporaryFile raises, or the writing raises and the file stays behind
\* with nobody knowing its name; a failure is raised as HTTPException(500).
CreateLocalTemp ==
    /\ rq.pc \in {"a_create", "s_create"}
    /\ \/ \E p \in ApiPaths \ api_fs :
             /\ api_fs' = api_fs \cup {p}
             /\ rq' = [rq EXCEPT !.temp_file_path = p,
                                 !.events = Append(@, "materialized"),
                                 !.pc = IF rq.pc = "a_create" THEN "a_analyze"
                                        ELSE "s_submit"]
       \/ /\ rq' = [rq EXCEPT !.raised = "HTTPException500",
                              !.pc = IF rq.pc = "a_create" THEN "a_except"
                                     ELSE "s_finally"]
          /\ UNCHANGED api_fs
       \/ \E p \in ApiPaths \ api_fs :
             /\ api_fs' = api_fs \cup {p}
             /\ rq' = [rq EXCEPT !.raised = "HTTPException500",
                                 !.pc = IF rq.pc = "a_create" THEN "a_except"
                                        ELSE "s_finally"]
    /\ UNCHANGED <<s3_future, session, db_rows, not_api>>

\* analyze_session_audio, line 215, and _upload_to_s3_background: the upload
\* is handed to the executor.
SubmitUpload ==
    /\ rq.pc = "s_submit"
    /\ s3_future' = [state |-> "pending", path |-> rq.temp_file_path]
    /\ rq' = [rq EXCEPT !.events = Append(@, "submit"), !.pc = "s_analyze"]
    /\ UNCHANGED <<api_fs, session, db_rows, not_api>>

\* A worker of the executor takes the upload: upload_file_to_s3 opens the
\* file, which raises when the file is gone.
UploadStarts ==
    /\ s3_future.state = "pending"
    /\ s3_future' = [s3_future EXCEPT
                       !.state = IF s3_future.path \in api_fs THEN "running" ELSE "error"]
    /\ UNCHANGED <<rq, api_fs, session, db_rows, not_api>>

\* upload_file_to_s3 returns the URL or raises.
UploadEnds ==
    /\ s3_future.state = "running"
    /\ \E ok \in BOOLEAN :
          s3_future' = [s3_future EXCEPT !.state = IF ok THEN "ok" ELSE "error"]
    /\ UNCHANGED <<rq, api_fs, session, db_rows, not_api>>

\* _analyze_audio_file, lines 108-110, called in lines 155 and 218: the
\* pipeline is called with the path of the temporary file.
AnalyzeCall ==
    /\ rq.pc \in {"a_analyze", "s_analyze"}
    /\ rq' = [rq EXCEPT !.events = Append(@, "pipeline_call"),
                        !.pc = IF rq.pc = "a_analyze" THEN "a_analyzing"
                               ELSE "s_analyzing"]
    /\ UNCHANGED <<api_fs, s3_future, session, db_rows, not_api>>

\* _analyze_audio_file, lines 110-125: analyze_audio returns results, which
\* are returned, or None, which is raised as HTTPException(500); it leaves the
\* file it was given on disk.
AnalyzeReturn ==
    /\ rq.pc \in {"a_analyzing", "s_analyzing"}
    /\ \E r \in {"dict", "None"} :
          rq' = [rq EXCEPT
                   !.events = Append(@, "pipeline_return"),
                   !.results = r,
                   !.raised = IF r = "dict" THEN @ ELSE "HTTPException500",
                   !.pc = IF rq.pc = "a_analyzing"
                          THEN (IF r = "dict" THEN "a_finally" ELSE "a_except")
                          ELSE (IF r = "dict" THEN "s_wait" ELSE "s_finally")]
    /\ UNCHANGED <<api_fs, s3_future, session, db_rows, not_api>>

\* analyze_audio, lines 157-162: an exception of the try block is raised as
\* HTTPException(500).
AnalyzeExcept ==
    /\ rq.pc = "a_except"
    /\ rq' = [rq EXCEPT !.raised = "HTTPException500", !.pc = "a_finally"]
    /\ UNCHANGED <<api_fs, s3_future, session, db_rows, not_api>>

\* analyze_audio, lines 163-165: the finally clause.  When os.unlink raises,
\* its exception takes the place of the response or of the HTTPException.
AnalyzeFinally ==
    /\ rq.pc = "a_finally"
    /\ IF must_unlink(rq.temp_file_path, api_fs)
       THEN \E unlink_ok \in BOOLEAN :
               /\ api_fs' = IF unlink_ok THEN api_fs \ {rq.temp_file_path} ELSE api_fs
               /\ rq' = [rq EXCEPT
                           !.events = Append(@, IF unlink_ok THEN "unlink"
                                                ELSE "unlink raised"),
                           !.raised = IF unlink_ok THEN @ ELSE "OSError",
                           !.response = IF ~unlink_ok THEN "500 unhandled"
                                        ELSE IF rq.raised = "" THEN "200" ELSE "500",
                           !.pc = "done"]
       ELSE /\ rq' = [rq EXCEPT !.response = IF rq.raised = "" THEN "200" ELSE "500",
                                !.pc = "done"]
            /\ UNCHANGED api_fs
    /\ UNCHANGED <<s3_future, session, db_rows, not_api>>

\* Future.result(timeout=30), line 222, by the state of the upload when the
\* wait ends: the URL, the upload's exception, or TimeoutError.
future_result(state) ==
    CASE state = "ok" -> "upload returned"
      [] state = "error" -> "upload raised"
      [] OTHER -> "upload timeout"

\* analyze_session_audio, lines 221-226: the wait for the upload, which ends
\* with the URL, with the upload's exception or, the upload not being done,
\* with TimeoutError; with the URL the session is written, which can raise.
WaitForUpload ==
    /\ rq.pc = "s_wait"
    /\ IF s3_future.state = "ok"
       THEN /\ session' = [session EXCEPT !.analysis_output = "results",
                                          !.s3_location = "s3_url",
                                          !.analysis_score = "pesq_score"]
            /\ \E updated \in BOOLEAN :
                  /\ db_rows' = IF updated THEN Append(db_rows, session') ELSE db_rows
                  /\ rq' = [rq EXCEPT
                              !.events = @ \o <<future_result(s3_future.state),
                                                IF updated THEN "update"
                                                ELSE "update raised">>,
                              !.pc = IF updated THEN "s_finally" ELSE "s_fallback"]
       ELSE /\ rq' = [rq EXCEPT !.events = Append(@, future_result(s3_future.state)),
                                !.pc = "s_fallback"]
            /\ UNCHANGED <<session, db_rows>>
    /\ UNCHANGED <<api_fs, s3_future, not_api>>

\* The handler setting the location as well.
store_without_url_sets_location(sess) ==
    [sess EXCEPT !.analysis_output = "results", !.s3_location = "s3_url",
                 !.analysis_score = "pesq_score"]

\* analyze_session_audio, lines 230-231: the results and the score are set
\* on the session object.
store_without_url(sess) ==
    [sess EXCEPT !.analysis_output = "results", !.analysis_score = "pesq_score"]

\* analyze_session_audio, lines 227-234: the results are stored without the
\* URL; when the writing raises, the exception goes on.
StoreWithoutUrl ==
    /\ rq.pc = "s_fallback"
    /\ session' = store_without_url(session)
    /\ \E updated \in BOOLEAN :
          /\ db_rows' = IF updated THEN Append(db_rows, session') ELSE db_rows
          /\ rq' = [rq EXCEPT !.events = Append(@, IF updated THEN "fallback update"
                                                   ELSE "fallback update raised"),
                              !.raised = IF updated THEN @ ELSE "Exception",
                              !.pc = "s_finally"]
    /\ UNCHANGED <<api_fs, s3_future, not_api>>

\* analyze_session_audio, lines 236-238: the finally clause; an exception,
\* that of os.unlink included, goes on to the outer handler.
SessionFinally ==
    /\ rq.pc = "s_finally"
    /\ IF must_unlink(rq.temp_file_path, api_fs)
       THEN \E unlink_ok \in BOOLEAN :
               /\ api_fs' = IF unlink_ok THEN api_fs \ {rq.temp_file_path} ELSE api_fs
               /\ rq' = [rq EXCEPT
                           !.events = Append(@, IF unlink_ok THEN "unlink"
                                                ELSE "unlink raised"),
                           !.raised = IF unlink_ok THEN @ ELSE "OSError",
                           !.response = IF unlink_ok /\ rq.raised = "" THEN "200" ELSE @,
                           !.pc = IF unlink_ok /\ rq.raised = "" THEN "done"
                                  ELSE "s_outer_except"]
       ELSE /\ rq' = [rq EXCEPT !.response = IF rq.raised = "" THEN "200" ELSE @,
                                !.pc = IF rq.raised = "" THEN "done"
                                       ELSE "s_outer_except"]
            /\ UNCHANGED api_fs
    /\ UNCHANGED <<s3_future, session, db_rows, not_api>>

\* analyze_session_audio, lines 240-245: every Exception of the outer try is
\* raised as HTTPException(500).
SessionExcept ==
    /\ rq.pc = "s_outer_except"
    /\ rq' = [rq EXCEPT !.response = "500", !.pc = "done"]
    /\ UNCHANGED <<api_fs, s3_future, session, db_rows, not_api>>

NextApi ==
    \/ GetSession
    \/ CreateLocalTemp
    \/ SubmitUpload
    \/ UploadStarts
    \/ UploadEnds
    \/ AnalyzeCall
    \/ AnalyzeReturn
    \/ AnalyzeExcept
    \/ AnalyzeFinally
    \/ WaitForUpload
    \/ StoreWithoutUrl
    \/ SessionFinally
    \/ SessionExcept

SpecApi == InitApi /\ [][NextApi]_vars

\* ================================================================= claims

\* How often an external function was called so far.
NumCalls(fn) == Cardinality({i \in DOMAIN calls : calls[i].fn = fn})

\* The exception convert_to_wav raised, on its way or caught.
ConvError == IF pc = "except" THEN exc ELSE caught

\* The positions before convert_to_wav has settled the content type.
BeforeCheck == {"begin", "magic", "probe", "check"}

ResultFields == {"pesq_score", "quality_category", "snr_db", "sample_rate"}
Labels == {"Poor Quality", "Fair Quality", "Good Quality", "Excellent Quality",
           "Outstanding Quality"}

\* C1 as stated: when the invocation is over, a temporary WAV file that
\* convert_to_wav created no longer exists, however the invocation ended.
C1_TempFileGone ==
    (pc = "done" /\ temp_wav_path # NoPath) => temp_wav_path \notin fs

\* C1, amended: when the invocation is over, a temporary WAV file that
\* convert_to_wav created has been handed to cleanup_temp_file exactly once and
\* no longer exists, unless os.unlink raised for it (which is logged as a
\* warning and leaves the file).
C1_TempFileGoneUnlessUnlinkFails ==
    (pc = "done" /\ temp_wav_path # NoPath)
        => /\ cleanups = <<temp_wav_path>>
           /\ temp_wav_path \notin fs \/ temp_wav_path \in unlink_failed

\* C1's case: a converted input was analysed, a result came back and the
\* temporary file is gone.
C1_Witness ==
    /\ pc = "done"
    /\ temp_wav_path # NoPath
    /\ conv = ConvReturned(temp_wav_path)
    /\ ret.value # None
    /\ temp_wav_path \notin fs

\* C2: no step of analyze_audio removes the caller's input file from the disk
\* or hands it to cleanup_temp_file, and no path is handed to
\* cleanup_temp_file twice in one invocation.
C2_InputKeptSingleCleanup ==
    [][/\ input_file \in fs => input_file \in fs'
       /\ \A i \in DOMAIN cleanups' : cleanups'[i] # input_file
       /\ \A i, j \in DOMAIN cleanups' : cleanups'[i] = cleanups'[j] => i = j]_vars

\* C2's case: an input that is already WAV, and named *.wav, was analysed to
\* the end and is still on disk.
C2_Witness ==
    /\ pc = "done"
    /\ file_type = WavMime
    /\ wav_file = input_file
    /\ input_file.suffix = ".wav"
    /\ ret.value # None
    /\ input_file \in fs

\* C3: once the detected type is audio/x-wav, convert_to_wav has returned the
\* input path, no temporary file exists or was asked for, and neither
\* get_media_info nor the transcoder was called.
C3_WavPassesThrough ==
    file_type = WavMime
        => /\ conv = ConvReturned(input_file)
           /\ temp_wav_path = NoPath
           /\ fs \cap TempPaths = {}
           /\ NumCalls("get_media_info") = 0
           /\ NumCalls("create_temp_wav") = 0
           /\ NumCalls("AudioSegment.from_file") = 0
           /\ NumCalls("export") = 0

\* C3's case: a WAV input went through the whole pipeline.
C3_Witness ==
    /\ pc = "done"
    /\ file_type = WavMime
    /\ conv = ConvReturned(input_file)
    /\ ret.value # None

\* C4 as stated: whenever the type after the stream inspection is not an
\* audio/* type (audio/webm being the audio-only container variant),
\* convert_to_wav raises the error naming the type, and no temporary file is
\* created and nothing is transcoded.
C4_NonAudioRejected ==
    (pc \notin BeforeCheck /\ file_type # NoMime /\ file_type.major # "audio")
        => /\ conv = ConvRaised
           /\ ConvError = [type |-> "ValueError", detail |-> file_type]
           /\ temp_wav_path = NoPath
           /\ NumCalls("create_temp_wav") = 0
           /\ NumCalls("AudioSegment.from_file") = 0

\* C4, amended: whenever the type after the stream inspection is neither an
\* audio/* type nor video/webm, convert_to_wav raises the error naming the
\* type, and no temporary file is created and nothing is transcoded; a
\* video/webm type is never rejected by this check.
C4_NonAudioNonWebmRejected ==
    /\ (pc \notin BeforeCheck /\ file_type # NoMime
            /\ file_type.major # "audio" /\ file_type # VideoWebm)
        => /\ conv = ConvRaised
           /\ ConvError = [type |-> "ValueError", detail |-> file_type]
           /\ temp_wav_path = NoPath
           /\ NumCalls("create_temp_wav") = 0
           /\ NumCalls("AudioSegment.from_file") = 0
    /\ (pc \notin BeforeCheck /\ file_type = VideoWebm)
        => /\ ConvError.type # "ValueError"
           /\ pc \notin {"create", "cv_except"} => NumCalls("create_temp_wav") = 1

\* C4's case: a PDF was rejected with the error naming application/pdf.
C4_Witness ==
    /\ pc = "done"
    /\ file_type = [major |-> "application", minor |-> "pdf"]
    /\ conv = ConvRaised
    /\ caught = [type |-> "ValueError", detail |-> file_type]
    /\ fs \cap TempPaths = {}

\* C5: when the input file does not exist or the PESQ computation raised,
\* analyze_audio ends by raising, not by returning.
C5_FailureRaised ==
    (pc = "done" /\ caught.type \in {"FileNotFoundError", "PesqError"})
        => ret.kind = "raised"

\* C6: when noise power and signal power are both zero, analyze_audio returns
\* a result whose snr_db is 0.0.
C6_SilenceSnrZero ==
    (pc = "done" /\ powers.kind # "unset" /\ powers.signal = 0 /\ powers.noise = 0)
        => /\ ret.value # None
           /\ ret.value.snr_db = Fin(0)

\* C7: when the noise power is zero and the signal power positive,
\* analyze_audio returns a result whose snr_db is +infinity.
C7_NoNoiseSnrInfinite ==
    (pc = "done" /\ powers.kind # "unset" /\ powers.signal > 0 /\ powers.noise = 0)
        => /\ ret.value # None
           /\ ret.value.snr_db = Inf

\* C8: a call of categorize_pesq returns one of the five labels, the one the
\* table gives: Poor below 1, Fair on [1, 2), Good on [2, 3), Excellent on
\* [3, 4), Outstanding from 4 on; 1, 2, 3 and 4 are in the upper bucket.
C8_ClassifierTable ==
    category # ""
        => /\ category \in Labels
           /\ pesq_score < 1000 => category = "Poor Quality"
           /\ (1000 <= pesq_score /\ pesq_score < 2000) => category = "Fair Quality"
           /\ (2000 <= pesq_score /\ pesq_score < 3000) => category = "Good Quality"
           /\ (3000 <= pesq_score /\ pesq_score < 4000) => category = "Excellent Quality"
           /\ pesq_score >= 4000 => category = "Outstanding Quality"

\* C8's case: the boundary 4.0 was classified.
C8_Witness ==
    /\ pc = "classified"
    /\ pesq_score = 4000
    /\ category = "Outstanding Quality"

\* C9: a value other than None that analyze_audio returns has exactly the four
\* fields, and its sample_rate is 16000.
C9_CompleteRecordAt16k ==
    (ret.kind = "returned" /\ ret.value # None)
        => /\ DOMAIN ret.value = ResultFields
           /\ ret.value.sample_rate = 16000
           /\ ret.value.quality_category \in Labels

\* C9's case: a file at another rate than 16 kHz was resampled and a result
\* came back.
C9_Witness ==
    /\ pc = "done"
    /\ ret.value # None
    /\ NumCalls("signal.resample") = 1
    /\ ret.value.sample_rate = 16000

\* C10 as stated: when convert_to_wav has raised after a temporary file was
\* allocated, the file is gone, the decode or encode error is the one that is
\* propagated, and the transcoder was called once.
C10_FailedConversionDeleted ==
    (conv = ConvRaised /\ temp_wav_path # NoPath)
        => /\ temp_wav_path \notin fs
           /\ ConvError.type \in {"CouldntDecodeError", "CouldntEncodeError"}
           /\ NumCalls("create_temp_wav") = 1
           /\ NumCalls("AudioSegment.from_file") = 1

\* C10, amended: when convert_to_wav has raised after a temporary file was
\* allocated, the file has been handed to cleanup_temp_file once and is gone
\* unless os.unlink raised for it, the decode or encode error is the one that
\* is propagated, and the transcoder was called once.
C10_FailedConversionCleaned ==
    (conv = ConvRaised /\ temp_wav_path # NoPath)
        => /\ cleanups = <<temp_wav_path>>
           /\ temp_wav_path \notin fs \/ temp_wav_path \in unlink_failed
           /\ ConvError.type \in {"CouldntDecodeError", "CouldntEncodeError"}
           /\ NumCalls("create_temp_wav") = 1
           /\ NumCalls("AudioSegment.from_file") = 1

\* C10's case: the decoder failed, the temporary file is gone and the error is
\* about to reach analyze_audio.
C10_Witness ==
    /\ pc = "except"
    /\ conv = ConvRaised
    /\ temp_wav_path # NoPath
    /\ temp_wav_path \notin fs
    /\ exc.type = "CouldntDecodeError"

\* C11: when libmagic reported video/webm and ffprobe listed the streams with
\* no video stream among them, the type is audio/webm from then on, the type
\* check does not reject it, the transcoder is given the input as "webm", and
\* a path convert_to_wav returns is the temporary .wav path, which is not the
\* input path, did not exist before create_temp_wav made it and was decoded
\* and exported once.
AudioOnlyWebm ==
    /\ content = VideoWebm
    /\ NumCalls("get_media_info") = 1
    /\ ~media_info.none
    /\ media_info.has_streams
    /\ \A i \in DOMAIN media_info.streams : media_info.streams[i] # "video"

C11_AudioOnlyWebmTranscoded ==
    /\ [](AudioOnlyWebm
            => /\ file_type = AudioWebm
               /\ ConvError.type # "ValueError"
               /\ \A i \in DOMAIN calls :
                     calls[i].fn = "AudioSegment.from_file" => calls[i].arg = "webm"
               /\ conv.kind = "returned"
                     => /\ conv.path = temp_wav_path
                        /\ conv.path \in TempPaths
                        /\ conv.path.suffix = ".wav"
                        /\ conv.path # input_file
                        /\ NumCalls("create_temp_wav") = 1
                        /\ NumCalls("AudioSegment.from_file") = 1
                        /\ NumCalls("export") = 1)
    /\ [][temp_wav_path' # temp_wav_path
            => /\ temp_wav_path' \notin fs
               /\ temp_wav_path' \in fs']_vars

\* C11's case: a WebM file with one audio stream was converted and analysed.
C11_Witness ==
    /\ pc = "done"
    /\ AudioOnlyWebm
    /\ media_info.streams = <<"audio">>
    /\ file_type = AudioWebm
    /\ conv = ConvReturned(temp_wav_path)
    /\ ret.value # None

\* The run of ffprobe failed: no binary, a non-zero exit or output that does
\* not parse.
ProbeFailed ==
    \E i \in DOMAIN calls :
        /\ calls[i].fn = "get_media_info"
        /\ calls[i].arg \in {"missing", "nonzero", "badjson"}

\* C12: after a failed run of ffprobe get_media_info has returned None, the
\* type is still video/webm, no exception is on its way when the type check is
\* reached, the type check lets the file through and create_temp_wav is
\* called.
C12_ProbeFailureNotFatal ==
    ProbeFailed
        => /\ media_info = NoInfo
           /\ file_type = VideoWebm
           /\ pc = "check" => (exc = NoExc /\ conv = ConvPending)
           /\ ConvError.type # "ValueError"
           /\ pc \notin BeforeCheck \cup {"create"} => NumCalls("create_temp_wav") = 1

\* C12's case: ffprobe is not installed, and the WebM file was converted and
\* analysed all the same.
C12_Witness ==
    /\ pc = "done"
    /\ \E i \in DOMAIN calls : calls[i] = Call("get_media_info", "missing")
    /\ file_type = VideoWebm
    /\ conv = ConvReturned(temp_wav_path)
    /\ ret.value # None

\* The calls that begin or make up the stages, in the order of the stages:
\* probe, convert, decode and condition, degrade, PESQ, SNR, classify.
StageOrder == <<"magic.from_file", "get_media_info", "create_temp_wav",
                "AudioSegment.from_file", "export", "sf.read", "signal.resample",
                "np.random.normal", "pesq", "np.mean", "categorize_pesq">>
Rank == [fn \in {StageOrder[i] : i \in DOMAIN StageOrder} |->
            CHOOSE i \in DOMAIN StageOrder : StageOrder[i] = fn]

\* C16: the calls of one invocation are made in the order of the stages, none
\* of them twice, and once an exception is on its way or was caught no further
\* call is made.
C16_StagesInOrderOnce ==
    /\ [](\A i \in DOMAIN calls :
             i > 1 => Rank[calls[i - 1].fn] < Rank[calls[i].fn])
    /\ [][(exc # NoExc \/ caught # NoExc) => calls' = calls]_vars

\* C16's case: a WebM file went through every stage, conversion and
\* resampling included.
C16_Witness ==
    /\ pc = "done"
    /\ ret.value # None
    /\ Len(calls) = Len(StageOrder)
    /\ \A i \in DOMAIN calls : calls[i].fn = StageOrder[i]

\* C17: the conditioning step leaves a buffer whose length is the integer
\* nearest to N * 16000 / R when the file's rate R is not 16000 (N being the
\* number of frames read), and N when it is; no later step changes the length,
\* and the noise vector has the same length.
C17_ResampledLength ==
    /\ [][/\ (pc = "condition" /\ sample_rate # 16000)
              => /\ 2 * (audio'.len * sample_rate - audio.len * 16000) <= sample_rate
                 /\ 2 * (audio.len * 16000 - audio'.len * sample_rate) <= sample_rate
          /\ (pc = "condition" /\ sample_rate = 16000) => audio'.len = audio.len
          /\ pc \notin {"read", "condition"} => audio'.len = audio.len]_vars
    /\ [](noise # NoNoise => noise.len = audio.len)

\* C17's case: 1000 frames at 44100 Hz became 363 samples at 16 kHz and were
\* handed to the degradation and to PESQ.
C17_Witness ==
    /\ pc = "snr"
    /\ NumCalls("signal.resample") = 1
    /\ sample_rate = 16000
    /\ audio.len = 363
    /\ noise.len = 363

\* An invocation owns its temporary file from create_temp_wav until it hands
\* the path to cleanup_temp_file.
Owns(i) == inv[i].temp_wav_path # NoPath /\ inv[i].cleanups = <<>>

\* C13 as stated: the temporary paths the invocations obtained are pairwise
\* distinct, the file of an invocation that owns one is on disk, and an
\* invocation that is over has returned a result or None.
C13_PathsPairwiseDistinct ==
    /\ \A i, j \in Invocations :
          (i # j /\ inv[i].temp_wav_path # NoPath /\ inv[j].temp_wav_path # NoPath)
              => inv[i].temp_wav_path # inv[j].temp_wav_path
    /\ \A i \in Invocations : Owns(i) => inv[i].temp_wav_path \in tmpdir
    /\ \A i \in Invocations : inv[i].pc = "done" => inv[i].ret.kind = "returned"

\* C13, amended: the temporary paths of invocations that own their files at
\* the same time are pairwise distinct (a name is free again once its file is
\* unlinked), the file of an invocation that owns one is on disk, an invocation
\* hands nothing but its own path to cleanup_temp_file, and every invocation
\* comes to its end, having returned a result or None.
C13_OwnedPathsDistinct ==
    /\ [](\A i, j \in Invocations :
             (i # j /\ Owns(i) /\ Owns(j))
                 => inv[i].temp_wav_path # inv[j].temp_wav_path)
    /\ [](\A i \in Invocations :
             /\ Owns(i) => inv[i].temp_wav_path \in tmpdir
             /\ \A k \in DOMAIN inv[i].cleanups :
                   inv[i].cleanups[k] = inv[i].temp_wav_path
             /\ inv[i].pc = "done" => inv[i].ret.kind = "returned")
    /\ <>(\A i \in Invocations : inv[i].pc = "done")

\* C13's case: two invocations held different temporary files at the same
\* time.
C13_Witness ==
    /\ Owns(1)
    /\ Owns(2)
    /\ inv[1].pc = "finally"
    /\ inv[2].pc = "finally"
    /\ inv[1].ret = Returned(ResultDict)
    /\ inv[2].ret = Returned(ResultDict)
    /\ inv[1].temp_wav_path # inv[2].temp_wav_path

\* C14: no two invocations draw their noise from the same generator.
C14_OwnGenerator ==
    \A i, j \in Invocations :
        (i # j /\ inv[i].noise # NoDraw /\ inv[j].noise # NoDraw)
            => inv[i].noise.generator # inv[j].noise.generator

\* Where an event is in the request's log (0: nowhere), and how often.
EventAt(e) ==
    IF \E i \in DOMAIN rq.events : rq.events[i] = e
    THEN CHOOSE i \in DOMAIN rq.events : rq.events[i] = e
    ELSE 0
EventCount(e) == Cardinality({i \in DOMAIN rq.events : rq.events[i] = e})

\* C15 as stated: when the request is over and the upload had been written to
\* a temporary file, the file is gone; and the file is never removed between
\* the call of the pipeline and its return.
C15_TempFileDeleted ==
    /\ (rq.pc = "done" /\ rq.temp_file_path # NoPath) => rq.temp_file_path \notin api_fs
    /\ (rq.temp_file_path # NoPath /\ EventAt("pipeline_call") > 0
            /\ EventAt("pipeline_return") = 0)
        => rq.temp_file_path \in api_fs

\* C15, amended: when the request is over and the upload had been written to
\* a temporary file, os.unlink was called for the file once, after the
\* pipeline had returned if it was called, and the file is gone unless
\* os.unlink raised; when it raised, the file is on disk and the request is
\* answered with an error.  The file is never removed between the call of the
\* pipeline and its return.
C15_TempFileDeletedUnlessUnlinkFails ==
    /\ (rq.pc = "done" /\ rq.temp_file_path # NoPath)
        => /\ EventCount("unlink") + EventCount("unlink raised") = 1
           /\ EventCount("unlink") = 1
                 => /\ rq.temp_file_path \notin api_fs
                    /\ EventAt("unlink") > EventAt("pipeline_return")
                    /\ EventAt("pipeline_call") > 0 => EventAt("pipeline_return") > 0
           /\ EventCount("unlink raised") = 1
                 => /\ rq.temp_file_path \in api_fs
                    /\ rq.response \in {"500", "500 unhandled"}
    /\ (rq.temp_file_path # NoPath /\ EventAt("pipeline_call") > 0
            /\ EventAt("pipeline_return") = 0)
        => rq.temp_file_path \in api_fs

\* C15's case: in the session endpoint the analysis succeeded, the results
\* could not be stored, the request was answered with 500 and the temporary
\* file is gone.
C15_Witness ==
    /\ rq.pc = "done"
    /\ rq.endpoint = "analyze_session"
    /\ rq.results = "dict"
    /\ rq.raised = "Exception"
    /\ rq.response = "500"
    /\ rq.temp_file_path # NoPath
    /\ rq.temp_file_path \notin api_fs


AllThreadsDone == \A t \in Threads : th[t].pc = "done"
FailedFetches == {i \in DOMAIN fetches : ~fetches[i].ok}

C19_FetchIffDue ==
    \A t \in Threads :
        (th[t].pc = "done" /\ th[t].op \in {"get_client", "init"})
            => LET b == th[t].before
                   due == \/ b.credentials.none
                          \/ b.credentials_expiry.none
                          \/ th[t].check.now + 5 >= b.credentials_expiry.at
               IN  /\ th[t].fetched = 1 <=> due
                   /\ th[t].fetched = 0 <=> ~due
                   /\ ~due => /\ fetches = <<>>
                              /\ Attributes(credentials, credentials_expiry, s3_client) = b
                              /\ th[t].res = "returned"
                              /\ th[t].s3_client = b.s3_client

\* C19's case: the credentials ended 6 minutes after the check, and get_client
\* returned the client it found without a call to Cognito.
C19_Witness ==
    /\ th[1].pc = "done"
    /\ th[1].op = "get_client"
    /\ th[1].res = "returned"
    /\ th[1].fetched = 0
    /\ th[1].check.now + 6 = th[1].before.credentials_expiry.at

\* C20: after a put_object attempt that failed with ExpiredToken, the next
\* attempt is made after a new call to Cognito and with a client other than
\* the one that failed.
C20_RefreshedBeforeRetry ==
    \A t \in Threads :
        \A i \in DOMAIN th[t].puts :
            (i > 1 /\ th[t].puts[i - 1].outcome = "ExpiredToken")
                => /\ th[t].puts[i].fetches > th[t].puts[i - 1].fetches
                   /\ th[t].puts[i].client # th[t].puts[i - 1].client


\* C21: a request to the session endpoint that names a session which does not
\* exist is answered with status 404, and for it no temporary file was
\* created, no upload was handed to the executor and the pipeline was not
\* called.
C21_MissingSessionAnswered404 ==
    (rq.pc = "done" /\ rq.endpoint = "analyze_session" /\ ~session.found)
        => /\ rq.response = "404"
           /\ rq.temp_file_path = NoPath
           /\ s3_future = NoFuture
           /\ EventCount("materialized") = 0
           /\ EventCount("submit") = 0
           /\ EventCount("pipeline_call") = 0


\* The token operations thread 1 has called, in order.
TokenHistory == th[1].history

\* C22: force_token_expiration returns the status 'expired' with
\* expires_in_seconds 0; a force_refresh_token that follows it and returns,
\* returns the status 'active' with expires_in_seconds above 0 and with an
\* expiry_time; and a get_token_status that follows a force_refresh_token
\* returns the expiry_time the force_refresh_token returned.
C22_TokenLifecycle ==
    \A i \in DOMAIN TokenHistory :
        LET h == TokenHistory[i]
        IN  h.returned
              => /\ h.op = "force_token_expiration"
                    => /\ h.status.status = "expired"
                       /\ h.status.expires_in_seconds = 0
                 /\ (i > 1 /\ h.op = "force_refresh_token"
                        /\ TokenHistory[i - 1].op = "force_token_expiration")
                    => /\ h.status.status = "active"
                       /\ h.status.expires_in_seconds > 0
                       /\ ~h.status.expiry_time.none
                 /\ (i > 1 /\ h.op = "get_token_status"
                        /\ TokenHistory[i - 1].op = "force_refresh_token"
                        /\ TokenHistory[i - 1].returned)
                    => h.status.expiry_time = TokenHistory[i - 1].status.expiry_time

\* C22's case: the token was valid for an hour, was expired, refreshed and
\* asked for, a minute having gone by before the last call returned.
C22_Witness ==
    /\ Len(TokenHistory) = 3
    /\ TokenHistory[1].op = "force_token_expiration"
    /\ TokenHistory[1].before.credentials_expiry = At(CredentialLifetime)
    /\ TokenHistory[2].op = "force_refresh_token"
    /\ TokenHistory[3].op = "get_token_status"
    /\ \A i \in 1..3 : TokenHistory[i].returned
    /\ TokenHistory[3].status.status = "active"
    /\ TokenHistory[3].status.expires_in_seconds
          < TokenHistory[2].status.expires_in_seconds

\* C23: a force_refresh_token that has returned has called Cognito and set
\* an expiry other than the one it found, whatever the expiry was.
C23_ForceRefreshFetches ==
    \A i \in DOMAIN TokenHistory :
        LET h == TokenHistory[i]
        IN  (h.op = "force_refresh_token" /\ h.returned)
              => /\ h.fetches_after = h.fetches_before + 1
                 /\ h.status.expiry_time # h.before.credentials_expiry


\* The calls of upload_file_to_s3.
Uploads == {t \in Threads : th[t].op = "upload"}

C28_KeysUnique ==
    \A t, u \in Uploads :
        (t # u /\ ~th[t].file_name.none /\ ~th[u].file_name.none)
            => th[t].file_name # th[u].file_name


\* The request to the session endpoint is over, the analysis had succeeded,
\* and the wait for the upload had ended with the upload's exception or with
\* TimeoutError.
UploadFailedOrLate ==
    /\ rq.pc = "done"
    /\ rq.endpoint = "analyze_session"
    /\ rq.results = "dict"
    /\ EventCount("upload raised") + EventCount("upload timeout") = 1

\* C25 as stated: when the analysis succeeded and the upload failed or was
\* not done within the wait, the results are returned (status 200) and
\* stored on the session, analysis_output and analysis_score, with the
\* s3_location the session had.
C25_ResultsReturnedAndStored ==
    UploadFailedOrLate
        => /\ rq.response = "200"
           /\ Len(db_rows) = 1
           /\ db_rows[1].analysis_output = "results"
           /\ db_rows[1].analysis_score = "pesq_score"
           /\ db_rows[1].s3_location # "s3_url"

\* C25, amended: when the analysis succeeded and the upload failed or was not
\* done within the wait, the results and the score are set on the session
\* object, its s3_location is left as it was, and the session is written
\* once; when the writing succeeds the row holds them, and the results are
\* returned unless os.unlink raises; when the writing raises nothing is
\* stored and the request is answered with 500.
C25_ResultsStoredUnlessUpdateFails ==
    UploadFailedOrLate
        => /\ session.analysis_output = "results"
           /\ session.analysis_score = "pesq_score"
           /\ session.s3_location # "s3_url"
           /\ EventCount("fallback update") + EventCount("fallback update raised") = 1
           /\ EventCount("fallback update") = 1
                 => /\ db_rows = <<session>>
                    /\ rq.response = "200" <=> EventCount("unlink raised") = 0
           /\ EventCount("fallback update raised") = 1
                 => /\ db_rows = <<>>
                    /\ rq.response = "500"
           /\ rq.response \in {"200", "500"}

\* C25's case: the upload was not done when the wait ended, the results
\* were stored on a session that had a location from before, and returned.
C25_Witness ==
    /\ UploadFailedOrLate
    /\ EventCount("upload timeout") = 1
    /\ rq.response = "200"
    /\ Len(db_rows) = 1
    /\ db_rows[1].analysis_output = "results"
    /\ db_rows[1].s3_location = "earlier_url"

\* C26: while the upload is waiting in the executor or running, the file it
\* was submitted for is on disk.
C26_FileKeptForUpload ==
    s3_future.state \in {"pending", "running"} => s3_future.path \in api_fs

\* C27: the quality_category of a result that is returned is the category of
\* the pesq_score in the same result, the score rounded to 2 decimals.
C27_CategoryOfReportedScore ==
    (ret.kind = "returned" /\ ret.value # None)
        => ret.value.quality_category = categorize_pesq(ret.value.pesq_score * 10)


\* C29: a call of get_client that returned without a refresh of its own
\* returns the client built from the credentials its check found: never the
\* client of the credentials a refresh has replaced.
C29_NoStaleClient ==
    \A t \in Threads :
        (th[t].op = "get_client" /\ th[t].res = "returned" /\ th[t].fetched = 0)
            => th[t].s3_client = Client(th[t].check.credentials.serial)


\* The constructor calls that ended with an object, and those that failed.
Built == {i \in DOMAIN constructed : constructed[i].outcome = "ok"}
Failed == {i \in DOMAIN constructed : constructed[i].outcome \in {"ValueError", "Exception"}}

\* C30: at most one constructor call ends with an object, and at most one
\* runs at a time; _instance, once set, stays the same object, the one that
\* was built; a get_instance that has returned has returned it; while no
\* constructor call has ended with an object, _instance is None and
\* is_initialized() is false, whatever has failed; and a get_instance that
\* began after a failed constructor call, with no instance there, and is over
\* has called the constructor itself or returns the object a later
\* constructor call built.
C30_OneInstance ==
    /\ [](/\ Cardinality(Built) <= 1
          /\ Cardinality({i \in DOMAIN constructed :
                              constructed[i].outcome = "running"}) <= 1
          /\ instance # 0 => instance \in Built
          /\ Built = {} => instance = 0 /\ ~is_initialized(instance, constructed)
          /\ \A i \in Failed : instance # i /\ ~constructed[i].initialized
          /\ \A t \in Threads :
                (th[t].op = "get_instance" /\ th[t].res = "returned")
                    => th[t].instance # 0 /\ th[t].instance = instance
          /\ \A t \in Threads :
                (th[t].op = "get_instance" /\ th[t].pc = "done")
                    => LET call == th[t].history[Len(th[t].history)]
                       IN  (call.found = 0 /\ call.constructions > 0
                              /\ \A i \in 1..call.constructions : i \in Failed)
                             => \/ \E i \in DOMAIN constructed :
                                      i > call.constructions /\ constructed[i].by = t
                                \/ th[t].res = "returned"
                                      /\ th[t].instance > call.constructions)
    /\ [][instance # 0 => instance' = instance]_vars

\* C30's case: a constructor call has failed, a call of get_instance that
\* began after it has built the object, and every thread has returned that
\* object, one of them without calling the constructor.
C30_Witness ==
    /\ Failed # {}
    /\ instance > 1
    /\ \A t \in Threads : th[t].pc = "done" /\ th[t].res = "returned"
                            /\ th[t].instance = instance
    /\ \E t \in Threads :
          /\ constructed[instance].by = t
          /\ th[t].history[Len(th[t].history)].constructions > 0
    /\ \E t \in Threads : \A i \in DOMAIN constructed : constructed[i].by # t


====
